---- MODULE Spec2Model ----
(***************************************************************************)
(* react-component-inspector: the inspection session (InspectionProvider), *)
(* the key / touch gesture handlers, the auto-inspection listeners with    *)
(* the element resolution walker, the metadata resolver, the hook          *)
(* handlers and the request-blocking flag.                                 *)
(*                                                                         *)
(* React state is committed by the handler that sets it.  The passive      *)
(* effects of InspectionProvider (the three "keep refs in sync" effects    *)
(* and the effect that re-registers the auto-inspection listeners) run     *)
(* after the commit: React runs useEffect callbacks once the render is     *)
(* committed, not inside the handler that called setState.  They run       *)
(* before the next commit at the latest (renderEach, renderBatched) and    *)
(* at any moment before it (FlushEffects).  A DOM event whose listeners    *)
(* are still to run is kept in dispatch.                                   *)
(***************************************************************************)
EXTENDS Integers, Sequences, FiniteSets, TLC

VARIABLES
    isInspectionActive,     \* useState, InspectionContext.tsx:196
    isLocked,               \* useState, InspectionContext.tsx:197
    hoveredComponent,       \* useState, InspectionContext.tsx:198
    hoveredElement,         \* useState, InspectionContext.tsx:199
    isInspectionActiveRef,  \* useRef, InspectionContext.tsx:202
    isLockedRef,            \* useRef, InspectionContext.tsx:203
    hoveredComponentRef,    \* useRef, InspectionContext.tsx:204
    hKeyPressedRef,         \* useRef, InspectionContext.tsx:205
    longPressTimerRef,      \* useRef, InspectionContext.tsx:208 (TRUE: a timeout is pending)
    touchStartTimeRef,      \* useRef, InspectionContext.tsx:209
    lastTapRef,             \* useRef, InspectionContext.tsx:210
    isMobileRef,            \* useRef, InspectionContext.tsx:211
    autoListeners,          \* the listeners setupAutoInspection registered, with the flags they closed over
    blockFlag,              \* module variable isInspectionActive of inspectionInterceptors
    dom,                    \* the document: element -> node
    touches,                \* fingers on the screen (TouchEvent.touches.length)
    dispatch,               \* listeners of the event in flight still to be called
    last,                   \* the handler that ran last, with its event
    nodeEnv,                \* process.env.NODE_ENV
    windowFetch,            \* window.fetch: the interceptors wrapped around the browser's fetch
    componentInstanceCounts, \* module variable componentInstanceCounts of inspection
    tooltip                 \* InspectionTooltip: its useState cells, refs and window listener

vars == <<isInspectionActive, isLocked, hoveredComponent, hoveredElement,
          isInspectionActiveRef, isLockedRef, hoveredComponentRef, hKeyPressedRef,
          longPressTimerRef, touchStartTimeRef, lastTapRef, isMobileRef,
          autoListeners, blockFlag, dom, touches, dispatch, last,
          nodeEnv, windowFetch, componentInstanceCounts, tooltip>>

-----------------------------------------------------------------------------
(* Values *)

\* null for an element reference (hoveredElement, parentElement)
Null == "null"

\* getAttribute() of an attribute the element does not carry
Absent == "<absent>"

\* an optional field that is undefined
Undefined == "<undefined>"

\* null for a ComponentMetadata reference
NoComponent == [null |-> TRUE]

\* parseInt() of a string that does not start with a number
NaN == 0 - 1

Elements == {"html", "body", "e1", "e2", "e3"}

\* JavaScript truthiness of a string | null
Truthy(s) == s # Absent /\ s # Undefined /\ s # ""

\* a || b on strings
OrElse(a, b) == IF Truthy(a) THEN a ELSE b

Max(a, b) == IF a >= b THEN a ELSE b

-----------------------------------------------------------------------------
(* The document *)

\* parentElement
parentElement(d, e) == d[e].parent

RECURSIVE Ancestors(_, _)
\* e and its chain of parentElement links, nearest first
Ancestors(d, e) ==
    IF e = Null THEN <<>> ELSE <<e>> \o Ancestors(d, d[e].parent)

\* document.body.contains(e)
bodyContains(d, e) ==
    e # Null /\ LET chain == Ancestors(d, e)
                IN  \E i \in 1..Len(chain) : chain[i] = "body"

\* Element.tagName.toLowerCase(), for the tags of the model
toLowerCaseTag(tag) ==
    CASE tag = "HTML" -> "html"
      [] tag = "BODY" -> "body"
      [] tag = "DIV" -> "div"
      [] tag = "SPAN" -> "span"
      [] tag = "BUTTON" -> "button"

\* getBoundingClientRect() of an element: its rendered width and height
getBoundingClientRect(d, e) == [width |-> d[e].width, height |-> d[e].height]

-----------------------------------------------------------------------------
(* Strings: the class tokens, tags and characters the model's documents use *)

\* c.startsWith("Mui")
startsWithMui(c) == c \in {"Mui", "MuiButton-root", "Muix"}

\* c.length > 2
lengthOver2(c) == c \notin {"", "ab"}

\* the capture of /Mui(\w+)/ in one class token, Undefined when it does not match
muiMatch(c) ==
    CASE c = "MuiButton-root" -> "Button"
      [] c = "Muix" -> "x"
      [] OTHER -> Undefined

\* String.toLowerCase() of a captured class word
toLowerCaseWord(w) ==
    CASE w = "Button" -> "button"
      [] OTHER -> w

\* the characters of a lower-case tag name
tagChars(t) ==
    CASE t = "div" -> <<"d", "i", "v">>
      [] t = "span" -> <<"s", "p", "a", "n">>
      [] t = "button" -> <<"b", "u", "t", "t", "o", "n">>
      [] t = "body" -> <<"b", "o", "d", "y">>
      [] t = "html" -> <<"h", "t", "m", "l">>

\* String.charCodeAt() of the characters a DOM path is written with
charCodeAt(c) ==
    CASE c = "0" -> 48 [] c = "1" -> 49 [] c = "2" -> 50 [] c = "3" -> 51
      [] c = ">" -> 62 [] c = "[" -> 91 [] c = "]" -> 93
      [] c = "a" -> 97 [] c = "b" -> 98 [] c = "d" -> 100 [] c = "h" -> 104
      [] c = "i" -> 105 [] c = "l" -> 108 [] c = "m" -> 109 [] c = "n" -> 110
      [] c = "o" -> 111 [] c = "p" -> 112 [] c = "s" -> 115 [] c = "t" -> 116
      [] c = "u" -> 117 [] c = "v" -> 118 [] c = "y" -> 121

\* the digits of Number.toString(36)
Base36Digits ==
    <<"0", "1", "2", "3", "4", "5", "6", "7", "8", "9", "a", "b", "c", "d", "e",
      "f", "g", "h", "i", "j", "k", "l", "m", "n", "o", "p", "q", "r", "s", "t",
      "u", "v", "w", "x", "y", "z">>

\* the decimal digit of a sibling index
digitChar(n) == Base36Digits[n + 1]

RECURSIVE joinChars(_)
\* the string made of a sequence of characters
joinChars(cs) == IF cs = <<>> THEN "" ELSE Head(cs) \o joinChars(Tail(cs))

RECURSIVE joinWith(_, _)
\* Array.join(sep)
joinWith(xs, sep) ==
    IF xs = <<>> THEN ""
    ELSE IF Len(xs) = 1 THEN xs[1]
    ELSE xs[1] \o sep \o joinWith(Tail(xs), sep)

\* parseInt(s, 10) for the values an instance marker takes in the model
parseInt(s) ==
    CASE s = "0" -> 0
      [] s = "2" -> 2
      [] s = "3px" -> 3
      [] OTHER -> NaN

-----------------------------------------------------------------------------
(* Metadata resolver: autoInspection.ts, extractElementInfo and             *)
(* parseInspectionMetadata                                                  *)

RECURSIVE firstMuiMatch(_)
\* className.match(/Mui(\w+)/): the first class token the pattern matches
firstMuiMatch(classes) ==
    IF classes = <<>> THEN Undefined
    ELSE IF muiMatch(Head(classes)) # Undefined THEN muiMatch(Head(classes))
    ELSE firstMuiMatch(Tail(classes))

\* extractElementInfo (the text preview is not part of the metadata and is left out)
extractElementInfo(d, e) ==
    [tagName |-> toLowerCaseTag(d[e].tag),
     className |-> d[e].classes,
     id |-> d[e].id,
     muiComponent |-> firstMuiMatch(d[e].classes)]

\* Array.from(parent.children).filter(same tag).indexOf(current)
sameTagIndex(d, e) ==
    LET sibs == SelectSeq(d[d[e].parent].children, LAMBDA c : d[c].tag = d[e].tag)
    IN  CHOOSE i \in 1..Len(sibs) : sibs[i] = e

RECURSIVE domPath(_, _)
\* the characters of path.join('>'): tag[index] of e and of its ancestors below body
domPath(d, e) ==
    IF e = Null \/ e = "body" \/ e = "html" THEN <<>>
    ELSE LET tag == tagChars(toLowerCaseTag(d[e].tag))
             own == IF d[e].parent # Null
                    THEN tag \o <<"[", digitChar(sameTagIndex(d, e) - 1), "]">>
                    ELSE tag
             up == domPath(d, d[e].parent)
         IN  IF up = <<>> THEN own ELSE up \o <<">">> \o own

RECURSIVE hashLimbs(_, _, _)
\* hash = ((hash << 5) - hash) + char; hash = hash & hash, over the characters:
\* the 32-bit value as two 16-bit limbs <<high, low>>
hashLimbs(cs, hi, lo) ==
    IF cs = <<>> THEN <<hi, lo>>
    ELSE LET l == lo * 31 + charCodeAt(Head(cs))
             h == hi * 31 + (l \div 65536)
         IN  hashLimbs(Tail(cs), h % 65536, l % 65536)

\* Math.abs() of the signed 32-bit value of two limbs, again as limbs
absLimbs(x) ==
    IF x[1] < 32768 THEN x
    ELSE LET lo == (65536 - x[2]) % 65536
             hi == IF x[2] = 0 THEN 65536 - x[1] ELSE 65535 - x[1]
         IN  <<hi, lo>>

RECURSIVE digits36(_, _)
\* Number.toString(36) of n > 0, most significant digit first
digits36(n, acc) ==
    IF n = 0 THEN acc ELSE digits36(n \div 36, <<Base36Digits[(n % 36) + 1]>> \o acc)

\* Math.abs(hash).toString(36).substr(0, 6)
hashStr(x) ==
    LET a == absLimbs(x)
        t == (a[1] % 36) * 65536 + a[2]
        q == (a[1] \div 36) * 65536 + (t \div 36)
        ds == IF a = <<0, 0>> THEN <<"0">>
              ELSE digits36(q, <<Base36Digits[(t % 36) + 1]>>)
    IN  joinChars(SubSeq(ds, 1, IF Len(ds) < 6 THEN Len(ds) ELSE 6))

\* an id made of the tag and the number of classes of the element
generateIdFromClasses(d, e) ==
    IF Truthy(d[e].id) THEN d[e].id
    ELSE toLowerCaseTag(d[e].tag) \o "-" \o ToString(Len(d[e].classes))

\* generateDeterministicId
generateDeterministicId(d, e) ==
    IF Truthy(d[e].id) THEN d[e].id
    ELSE toLowerCaseTag(d[e].tag) \o "-" \o hashStr(hashLimbs(domPath(d, e), 0, 0))

\* an explicit branch that reads the name and the id markers only
explicitMetadataNameAndId(d, e) ==
    [componentName |-> d[e].name,
     componentId |-> d[e].cid,
     variant |-> Undefined,
     role |-> Undefined,
     usagePath |-> "Unknown",
     instanceIndex |-> 0,
     propsSignature |-> "default",
     sourceFile |-> "Unknown"]

\* the explicit branch of parseInspectionMetadata
explicitMetadata(d, e) ==
    [componentName |-> d[e].name,
     componentId |-> d[e].cid,
     variant |-> OrElse(d[e].variant, Undefined),
     role |-> OrElse(d[e].roleMarker, Undefined),
     usagePath |-> OrElse(d[e].usagePath, "Unknown"),
     instanceIndex |-> parseInt(OrElse(d[e].instance, "0")),
     propsSignature |-> OrElse(d[e].props, "default"),
     sourceFile |-> OrElse(d[e].file, "Unknown")]

\* the inferred branch of parseInspectionMetadata
inferredMetadata(d, e) ==
    LET info == extractElementInfo(d, e)
        base == IF info.muiComponent # Undefined THEN info.muiComponent ELSE d[e].tag
        classes == SelectSeq(info.className,
                             LAMBDA c : c # "" /\ ~startsWithMui(c) /\ lengthOver2(c))
        inferredName ==
            IF Truthy(info.id) THEN base \o " (" \o info.id \o ")"
            ELSE IF info.className # <<>> /\ classes # <<>> THEN base \o " ." \o classes[1]
            ELSE base
        props == (IF Truthy(info.id) THEN <<"id=" \o info.id>> ELSE <<>>)
                 \o (IF info.className # <<>>
                     THEN <<"classes=" \o ToString(Len(info.className))>> ELSE <<>>)
    IN  [componentName |-> inferredName,
         componentId |-> generateDeterministicId(d, e),
         variant |-> IF info.muiComponent # Undefined
                     THEN toLowerCaseWord(info.muiComponent) ELSE Undefined,
         role |-> OrElse(d[e].role, OrElse(d[e].ariaLabel, Undefined)),
         usagePath |-> "DOM Element",
         instanceIndex |-> 0,
         propsSignature |-> IF props # <<>> THEN joinWith(props, ", ") ELSE "default",
         sourceFile |-> "DOM"]

\* a test for explicit markers that finds none
hasNoMetadata(d, e) == FALSE

\* current.getAttribute("data-inspection-name") && current.getAttribute("data-inspection-id")
hasExplicitMetadata(d, e) == Truthy(d[e].name) /\ Truthy(d[e].cid)

\* parseInspectionMetadata
parseInspectionMetadata(d, e) ==
    IF nodeEnv # "development" THEN NoComponent
    ELSE IF hasExplicitMetadata(d, e) THEN explicitMetadata(d, e)
    ELSE inferredMetadata(d, e)

-----------------------------------------------------------------------------
(* Element resolution walker: autoInspection.ts, inspectElement              *)

\* a heuristic that does not look at the rendered size
isMeaningfulWhateverSize(d, e) ==
    \/ Truthy(d[e].name)
    \/ Truthy(d[e].id)
    \/ d[e].classes # <<>>
    \/ (d[e].tag # "SPAN" /\ d[e].tag # "DIV")

\* isMeaningfulElement
isMeaningfulElement(d, e) ==
    LET rect == getBoundingClientRect(d, e)
    IN  IF rect.width < 5 /\ rect.height < 5 THEN FALSE
        ELSE \/ Truthy(d[e].name)
             \/ Truthy(d[e].id)
             \/ d[e].classes # <<>>
             \/ (d[e].tag # "SPAN" /\ d[e].tag # "DIV")

\* the loop's step to the parent: Null once the parent is body or html ("stop at body")
stepUp(d, current) ==
    LET p == parentElement(d, current)
    IN  IF p # Null /\ d[p].tag \in {"BODY", "HTML"} THEN Null ELSE p

RECURSIVE firstPassHeuristic(_, _)
\* a faulty first pass that lets the heuristic accept a closer element
firstPassHeuristic(d, current) ==
    IF current = Null THEN Null
    ELSE IF ~bodyContains(d, current) THEN Null
    ELSE IF hasExplicitMetadata(d, current) THEN current
    ELSE IF isMeaningfulElement(d, current) THEN Null
    ELSE firstPassHeuristic(d, stepUp(d, current))

RECURSIVE firstPass(_, _)
\* first pass: the nearest element, from current upward, with explicit metadata
firstPass(d, current) ==
    IF current = Null THEN Null
    ELSE IF ~bodyContains(d, current) THEN Null
    ELSE IF hasExplicitMetadata(d, current) THEN current
    ELSE firstPass(d, stepUp(d, current))

RECURSIVE secondPass(_, _)
\* second pass: the first meaningful element, from current upward
secondPass(d, current) ==
    IF current = Null THEN Null
    ELSE IF ~bodyContains(d, current) THEN Null
    ELSE IF isMeaningfulElement(d, current) THEN current
    ELSE secondPass(d, stepUp(d, current))

\* the call a handler makes to setHoveredComponent, if it makes one
NoCall == [called |-> FALSE, component |-> NoComponent, element |-> Null]

Call(component, element) == [called |-> TRUE, component |-> component, element |-> element]

\* a faulty inspectElement without the early return on isLocked
inspectElementIgnoringLock(d, target, active, locked) ==
    IF ~active THEN NoCall
    ELSE IF target = Null \/ ~bodyContains(d, target) THEN NoCall
    ELSE LET explicit == firstPass(d, target)
             best == secondPass(d, target)
         IN  IF explicit # Null THEN Call(parseInspectionMetadata(d, explicit), explicit)
             ELSE IF best # Null THEN Call(parseInspectionMetadata(d, best), best)
             ELSE Call(parseInspectionMetadata(d, target), target)

\* a walker without the last resort: it reports nothing when neither pass accepts
inspectElementWithoutFallback(d, target, active, locked) ==
    IF ~active THEN NoCall
    ELSE IF locked THEN NoCall
    ELSE IF target = Null \/ ~bodyContains(d, target) THEN NoCall
    ELSE LET explicit == firstPass(d, target)
             best == secondPass(d, target)
         IN  IF explicit # Null THEN Call(parseInspectionMetadata(d, explicit), explicit)
             ELSE IF best # Null THEN Call(parseInspectionMetadata(d, best), best)
             ELSE Call(NoComponent, Null)

\* inspectElement(target, isInspectionActive, isLocked, setHoveredComponent)
inspectElement(d, target, active, locked) ==
    IF ~active THEN NoCall
    ELSE IF locked THEN NoCall
    ELSE IF target = Null \/ ~bodyContains(d, target) THEN NoCall
    ELSE LET explicit == firstPass(d, target)
             best == secondPass(d, target)
         IN  IF explicit # Null THEN Call(parseInspectionMetadata(d, explicit), explicit)
             ELSE IF best # Null THEN Call(parseInspectionMetadata(d, best), best)
             ELSE Call(parseInspectionMetadata(d, target), target)

-----------------------------------------------------------------------------
(* Instrumentation: inspection utilities, useInspectionMetadata and          *)
(* InspectionWrapper                                                        *)

\* componentName.toLowerCase().replace(/\s+/g, "-") for the names of the model
toLowerCaseName(name) ==
    CASE name = "Card" -> "card"
      [] name = "Panel" -> "panel"
      [] name = "Save Button" -> "save-button"
      [] OTHER -> name

\* generateComponentId
generateComponentId(componentName, instanceIndex) ==
    toLowerCaseName(componentName) \o "-" \o ToString(instanceIndex)

\* the allow-list of formatPropsSignature, in its order
importantProps ==
    <<"variant", "role", "type", "mode", "status", "disabled", "selected", "active">>

\* a signature of every allow-listed key that is present, whatever its value
formatPropsSignatureAnyValue(props) ==
    LET keys == SelectSeq(importantProps, LAMBDA k : k \in DOMAIN props)
        keyProps == [i \in 1..Len(keys) |-> keys[i] \o "=" \o props[keys[i]].text]
    IN  IF Len(keyProps) > 0 THEN joinWith(keyProps, ", ") ELSE "default"

\* formatPropsSignature: props maps a key to [kind: its typeof, text: String(value)]
formatPropsSignature(props) ==
    LET keys == SelectSeq(importantProps,
                          LAMBDA k : /\ k \in DOMAIN props
                                     /\ props[k].kind \in {"string", "number", "boolean"})
        keyProps == [i \in 1..Len(keys) |-> keys[i] \o "=" \o props[keys[i]].text]
    IN  IF Len(keyProps) > 0 THEN joinWith(keyProps, ", ") ELSE "default"

\* an element no hook or wrapper instruments
NoHook == [kind |-> "none"]

\* the metadata useInspectionMetadata computes (InspectionWrapper builds the same record)
hookMetadata(d, e) ==
    LET config == d[e].hook
    IN  [componentName |-> config.componentName,
         componentId |-> generateComponentId(config.componentName, config.instanceIndex),
         variant |-> config.variant,
         role |-> config.role,
         usagePath |-> config.usagePath,
         instanceIndex |-> config.instanceIndex,
         propsSignature |-> formatPropsSignature(config.props),
         sourceFile |-> config.sourceFile]

\* what the page adds to an element of the model: its trimmed textContent (at most 100
\* characters) and where getBoundingClientRect() finds it
ClipboardContents ==
    {[text |-> "", left |-> 0, top |-> 0], [text |-> "Save", left |-> 450, top |-> 320]}

\* the layout of the README's example: the selector inside the element section, the
\* component section last
formatMetadataAsReadme(metadata, d, e, content) ==
    <<<<"=== ELEMENT IDENTIFICATION ===", "">>,
      <<"Element Type", toLowerCaseTag(d[e].tag)>>,
      <<"CSS Selector", toLowerCaseTag(d[e].tag)>>,
      <<"", "">>,
      <<"=== COMPONENT METADATA ===", "">>,
      <<"Component Name", metadata.componentName>>,
      <<"Component ID", metadata.componentId>>,
      <<"Variant", metadata.variant>>,
      <<"Usage Path", metadata.usagePath>>,
      <<"Instance", ToString(metadata.instanceIndex)>>,
      <<"Props", metadata.propsSignature>>,
      <<"Source File", metadata.sourceFile>>>>

\* formatMetadataForClipboard: the lines it joins with "\n", each as <<label, value>>
\* (a header or an empty line has no value). The documents of the model carry no
\* data-* attribute besides the inspection markers, so no "Data Attributes" line
formatMetadataForClipboard(metadata, d, e, content) ==
    LET tag == toLowerCaseTag(d[e].tag)
        kept == SelectSeq(d[e].classes, LAMBDA c : c # "" /\ ~startsWithMui(c))
        classes == SubSeq(kept, 1, IF Len(kept) < 5 THEN Len(kept) ELSE 5)
        role == OrElse(d[e].role, metadata.role)
        selector == IF Truthy(d[e].id) THEN "#" \o d[e].id
                    ELSE IF d[e].classes # <<>> /\ kept # <<>> THEN tag \o "." \o kept[1]
                    ELSE tag
        rect == getBoundingClientRect(d, e)
    IN  <<<<"=== ELEMENT IDENTIFICATION ===", "">>,
          <<"Element Type", tag>>>>
        \o (IF content.text # "" THEN <<<<"Element Text/Label", "\"" \o content.text \o "\"">>>>
            ELSE <<>>)
        \o (IF Truthy(d[e].id) THEN <<<<"Element ID", d[e].id>>>> ELSE <<>>)
        \o (IF d[e].classes # <<>> /\ classes # <<>>
            THEN <<<<"Element Classes", joinWith(classes, ", ")>>>> ELSE <<>>)
        \o (IF Truthy(role) THEN <<<<"Role", role>>>> ELSE <<>>)
        \o (IF Truthy(d[e].ariaLabel)
            THEN <<<<"Aria Label", "\"" \o d[e].ariaLabel \o "\"">>>> ELSE <<>>)
        \o <<<<"", "">>,
             <<"=== COMPONENT METADATA ===", "">>,
             <<"Component Name", metadata.componentName>>,
             <<"Component ID", metadata.componentId>>>>
        \o (IF Truthy(metadata.variant) THEN <<<<"Variant", metadata.variant>>>> ELSE <<>>)
        \o <<<<"Usage Path", metadata.usagePath>>,
             <<"Instance", IF metadata.instanceIndex = NaN THEN "NaN"
                           ELSE ToString(metadata.instanceIndex)>>,
             <<"Props", metadata.propsSignature>>,
             <<"Source File", metadata.sourceFile>>,
             <<"", "">>,
             <<"=== CSS SELECTOR ===", "">>,
             <<"Selector", selector>>,
             <<"Position", "(" \o ToString(content.left) \o ", " \o ToString(content.top)
                               \o ")">>,
             <<"Size", ToString(rect.width) \o "x" \o ToString(rect.height) \o "px">>>>

\* an enter handler without the test of isInspectionActive
hookEnterAlways(d, e, active) == Call(hookMetadata(d, e), e)

\* handleMouseEnter / handleTouchStart of useInspectionMetadata and handleMouseEnter of
\* InspectionWrapper: active is the isInspectionActive of the render that made the handler
hookEnter(d, e, active) ==
    IF ~active THEN NoCall ELSE Call(hookMetadata(d, e), e)

\* handleMouseLeave of useInspectionMetadata and of InspectionWrapper
hookLeave(active) ==
    IF ~active THEN NoCall ELSE Call(NoComponent, Null)

-----------------------------------------------------------------------------
(* The documents of the model *)

\* an element with no attribute set
Plain(parent, children, tag) ==
    [parent |-> parent, children |-> children, tag |-> tag, id |-> "", classes |-> <<>>,
     name |-> Absent, cid |-> Absent, variant |-> Absent, roleMarker |-> Absent,
     usagePath |-> Absent, instance |-> Absent, props |-> Absent, file |-> Absent,
     role |-> Absent, ariaLabel |-> Absent, width |-> 100, height |-> 20, hook |-> NoHook]

\* html > body > e1 > e2 > e3, with the three elements' attributes to be filled in
Skeleton ==
    [e \in Elements |->
        CASE e = "html" -> Plain(Null, <<"body">>, "HTML")
          [] e = "body" -> Plain("html", <<"e1">>, "BODY")
          [] e = "e1" -> Plain("body", <<"e2">>, "DIV")
          [] e = "e2" -> Plain("e1", <<"e3">>, "DIV")
          [] e = "e3" -> Plain("e2", <<>>, "SPAN")]

\* parent.removeChild(e): e and its subtree leave the document
removeChild(d, e) ==
    [d EXCEPT ![e].parent = Null,
              ![d[e].parent].children = SelectSeq(@, LAMBDA c : c # e)]

\* the attributes a template sets on a node, the node's place in the tree kept
WithAttrs(node, t) ==
    [t EXCEPT !.parent = node.parent, !.children = node.children]

\* the page of the session model: e1 is wrapped by InspectionWrapper ("Panel"), e2 spreads
\* the props of useInspectionMetadata ("Card"), e3 is a span inside it
PageDom ==
    [Skeleton EXCEPT
        !["e1"] = [@ EXCEPT !.name = "Panel", !.cid = "panel-0",
                            !.hook = [kind |-> "wrapper", componentName |-> "Panel",
                                      instanceIndex |-> 0, variant |-> Undefined,
                                      role |-> Undefined, usagePath |-> "App",
                                      props |-> [mode |-> [kind |-> "string", text |-> "dark"]],
                                      sourceFile |-> "src/Panel.tsx"]],
        !["e2"] = [@ EXCEPT !.name = "Card", !.cid = "card-0", !.classes = <<"card">>,
                            !.hook = [kind |-> "hook", componentName |-> "Card",
                                      instanceIndex |-> 0, variant |-> "primary",
                                      role |-> Undefined, usagePath |-> "App > Panel",
                                      props |-> [variant |-> [kind |-> "string", text |-> "primary"],
                                                 onClick |-> [kind |-> "function", text |-> "f"]],
                                      sourceFile |-> "src/Card.tsx"]],
        !["e3"] = [@ EXCEPT !.classes = <<"label">>]]

\* kinds of element the resolver tells apart
SmallSpan == [Plain(Null, <<>>, "SPAN") EXCEPT !.width = 0, !.height = 0]

PlainDiv == Plain(Null, <<>>, "DIV")

ClassDiv == [Plain(Null, <<>>, "DIV") EXCEPT !.classes = <<"transaction-card", "selected">>]

MarkedButton ==
    [Plain(Null, <<>>, "BUTTON") EXCEPT
        !.id = "save", !.name = "SaveButton", !.cid = "save-button-0",
        !.variant = "primary", !.usagePath = "App > Toolbar", !.instance = "2",
        !.props = "variant=primary", !.file = "src/SaveButton.tsx"]

NameOnlyDiv == [Plain(Null, <<>>, "DIV") EXCEPT !.name = "Row"]

EmptyNameDiv == [Plain(Null, <<>>, "DIV") EXCEPT !.name = "", !.cid = "row-1"]

MuiButton == [Plain(Null, <<>>, "BUTTON") EXCEPT !.classes = <<"MuiButton-root", "ab">>]

MarkedSmallSpan ==
    [Plain(Null, <<>>, "SPAN") EXCEPT
        !.name = "Icon", !.cid = "icon-0", !.width = 0, !.height = 0]

\* explicit markers with an instance marker that is not a number
MisnumberedRow ==
    [Plain(Null, <<>>, "DIV") EXCEPT
        !.name = "Row", !.cid = "row-7", !.roleMarker = "listitem", !.instance = "abc"]

\* the kinds of element; the last two are a span too small to see that has a class, and
\* a div whose class starts with Mui but names no component
Templates ==
    {SmallSpan, PlainDiv, ClassDiv, MarkedButton, NameOnlyDiv, EmptyNameDiv, MuiButton,
     MarkedSmallSpan, MisnumberedRow, [SmallSpan EXCEPT !.classes = <<"selected">>],
     [PlainDiv EXCEPT !.classes = <<"Muix">>]}

\* the documents the walker is applied to: html > body > e1 > e2 > e3 with each element
\* of any kind, whole or with one element (and its subtree) removed
WalkerDocuments ==
    LET whole == {[Skeleton EXCEPT !["e1"] = WithAttrs(@, t1), !["e2"] = WithAttrs(@, t2),
                                   !["e3"] = WithAttrs(@, t3)] :
                      t1 \in Templates, t2 \in Templates, t3 \in Templates}
    IN  whole \cup {removeChild(d, e) : d \in whole, e \in {"e2", "e3"}}

-----------------------------------------------------------------------------
(* Bounds and program constants *)

\* the long-press delay of handleTouchStart, in ms
LongPressMs == 800

\* the double-tap window of handleTouchEnd, in ms
DoubleTapMs == 300

\* the touch count that starts a long-press
ActivationTouches == 3

\* the most fingers on the screen
MaxTouches == 3

\* the time one Tick lets pass, in ms
TickMs == 280

\* Date.now(), in a frame that slides with the clock: a timestamp a handler stored is
\* kept as Now minus its age, and an age of LongPressMs or more is kept as timestamp 0
Now == LongPressMs

-----------------------------------------------------------------------------
(* The session: React state, the effects that follow a commit *)

session == <<isInspectionActive, isLocked, hoveredComponent, hoveredElement>>

refs == <<isInspectionActiveRef, isLockedRef, hoveredComponentRef>>

touchRefs == <<longPressTimerRef, touchStartTimeRef, lastTapRef>>

moduleState == <<nodeEnv, windowFetch, componentInstanceCounts>>

\* the committed state of the provider's four useState cells
State ==
    [isInspectionActive |-> isInspectionActive, isLocked |-> isLocked,
     hoveredComponent |-> hoveredComponent, hoveredElement |-> hoveredElement]

\* the state the provider's effects ran with last: what the refs hold
Seen ==
    [isInspectionActive |-> isInspectionActiveRef, isLocked |-> isLockedRef,
     hoveredComponent |-> hoveredComponentRef]

\* the three "keep refs in sync" effects, run on a committed state
syncRefs(st) ==
    [isInspectionActive |-> st.isInspectionActive, isLocked |-> st.isLocked,
     hoveredComponent |-> st.hoveredComponent]

\* setupAutoInspection(setHoveredComponent, isInspectionActive, isLocked): the listeners
\* registered once it returned, with the flags they close over; outside development it
\* registers nothing
setupAutoInspection(active, locked) ==
    IF nodeEnv # "development" THEN autoListeners
    ELSE [isInspectionActive |-> active, isLocked |-> locked]

RECURSIVE renders(_, _, _)
\* setState calls made outside a React event handler (a window listener, a timeout), each
\* rendered when it is made: a call that changes its cell commits, and React runs the
\* effects still pending from the commit before, on the state of that commit, first.
\* The commits in order, each with the state the components render and the refs
renders(st, seen, updates) ==
    IF updates = <<>> THEN <<>>
    ELSE LET field == Head(updates)[1]
             value == Head(updates)[2]
         IN  IF st[field] = value
             THEN renders(st, seen, Tail(updates))
             ELSE <<<<[st EXCEPT ![field] = value], syncRefs(st)>>>>
                  \o renders([st EXCEPT ![field] = value], syncRefs(st), Tail(updates))

\* the state and the refs after setState calls rendered one by one
renderEach(st, seen, updates) ==
    LET rs == renders(st, seen, updates)
    IN  IF rs = <<>> THEN <<st, seen>> ELSE rs[Len(rs)]

RECURSIVE applyAll(_, _)
\* a state with every update of a batch applied
applyAll(st, updates) ==
    IF updates = <<>> THEN st
    ELSE applyAll([st EXCEPT ![Head(updates)[1]] = Head(updates)[2]], Tail(updates))

\* setState calls React batches (a React event handler, or automatic batching): one
\* commit for all, after the effects still pending from the commit before
renderBatched(st, seen, updates) ==
    IF applyAll(st, updates) = st THEN <<st, seen>>
    ELSE <<applyAll(st, updates), syncRefs(st)>>

\* the state and the refs after a handler's setState calls
rendered(updates, batched) ==
    IF batched THEN renderBatched(State, Seen, updates)
    ELSE renderEach(State, Seen, updates)

\* the session, the refs and the registered auto-inspection listeners take the values of r
commit(r) ==
    /\ isInspectionActive' = r[1].isInspectionActive
    /\ isLocked' = r[1].isLocked
    /\ hoveredComponent' = r[1].hoveredComponent
    /\ hoveredElement' = r[1].hoveredElement
    /\ isInspectionActiveRef' = r[2].isInspectionActive
    /\ isLockedRef' = r[2].isLocked
    /\ hoveredComponentRef' = r[2].hoveredComponent
    /\ autoListeners' = setupAutoInspection(r[2].isInspectionActive, r[2].isLocked)

\* the listeners setupAutoInspection registers on window and document
AutoHandlers ==
    {"autoMouseMove", "autoMouseLeave", "autoTouchMove", "autoTouchStart", "autoTouchEnd"}

\* the listeners of the event in flight (q: those not called yet, the one called now
\* first) left to call after one was called: when the effect
\* registered the auto-inspection listeners again, the removed ones are not called
remaining(r, q) ==
    IF setupAutoInspection(r[2].isInspectionActive, r[2].isLocked) # autoListeners
    THEN SelectSeq(Tail(q), LAMBDA l : l.h \notin AutoHandlers)
    ELSE Tail(q)

\* setHoveredComponent of InspectionProvider: its setState calls
setHoveredComponent(d, component, element) ==
    IF nodeEnv # "development" THEN <<>>
    ELSE IF element # Null /\ ~bodyContains(d, element)
    THEN <<<<"hoveredComponent", NoComponent>>, <<"hoveredElement", Null>>>>
    ELSE <<<<"hoveredComponent", component>>, <<"hoveredElement", element>>>>

\* the setState calls of a handler's call to setHoveredComponent, if it makes one
hoveredUpdates(call) ==
    IF call.called THEN setHoveredComponent(dom, call.component, call.element) ELSE <<>>

\* a notification that leaves the request-blocking flag as it was
setInspectionActiveDropped(active) == UNCHANGED blockFlag

\* setInspectionActive of inspectionInterceptors
setInspectionActive(active) ==
    blockFlag' = IF nodeEnv # "development" THEN blockFlag ELSE active

\* shouldBlockRequest of inspectionInterceptors
shouldBlockRequest == IF nodeEnv # "development" THEN FALSE ELSE blockFlag

-----------------------------------------------------------------------------
(* The module state of the interceptors and of the instance counters        *)

\* component names that differ in letter case, or in whitespace against hyphens
ComponentNames == {"Card", "card", "Save Button", "save-button"}

\* instances allocated between two resets, at most
MaxInstances == 2

\* calls of setupInterceptors, at most
MaxInterceptors == 1

\* the requests of the model
Requests == {"/api/a", "/api/b"}

\* no auto-inspection listener is registered
NoListeners == [none |-> TRUE]

\* componentInstanceCounts.get(componentName) || 0
getCount(counts, componentName) == counts[componentName]

\* a counter shared by all component names
getNextInstanceIndexShared(componentName) ==
    LET current == getCount(componentInstanceCounts, componentName)
    IN  [index |-> current,
         counts |-> [name \in DOMAIN componentInstanceCounts |->
                        componentInstanceCounts[name] + 1]]

\* getNextInstanceIndex: the index it returns and the counters it leaves
getNextInstanceIndex(componentName) ==
    LET current == getCount(componentInstanceCounts, componentName)
    IN  [index |-> current,
         counts |-> [componentInstanceCounts EXCEPT ![componentName] = current + 1]]

\* resetInstanceCounts: componentInstanceCounts.clear()
resetInstanceCounts == [name \in ComponentNames |-> 0]

\* a window.fetch that hands every request to the fetch it wraps
fetchUnguarded(n, args) == [outcome |-> "forwarded", args |-> args, error |-> Null]

RECURSIVE fetch(_, _)
\* window.fetch(...args) with n interceptors of setupFetchInterceptor wrapped around the
\* browser's fetch: what the caller gets and what the browser's fetch was called with
fetch(n, args) ==
    IF n = 0 THEN [outcome |-> "forwarded", args |-> args, error |-> Null]
    ELSE IF shouldBlockRequest
    THEN [outcome |-> "rejected", args |-> Null,
          error |-> "Request blocked: Inspection mode active (CTRL held)"]
    ELSE fetch(n - 1, args)

\* setupFetchInterceptor: window.fetch once it returned
setupFetchInterceptor ==
    IF nodeEnv # "development" THEN windowFetch ELSE windowFetch + 1

\* setupInterceptors: window.fetch once it returned (setupFirestoreInterceptor does nothing)
setupInterceptors ==
    IF nodeEnv # "development" THEN windowFetch ELSE setupFetchInterceptor

\* what useContext returns outside every InspectionProvider (createContext(undefined))
NoContext == [undefined |-> TRUE]

\* an Error thrown to the caller
Throws(message) == [throws |-> "Error", message |-> message]

\* useInspection: what a component reads from the context; context is what useContext
\* returned, NoContext outside every InspectionProvider
useInspection(context) ==
    IF nodeEnv # "development"
    THEN [isInspectionActive |-> FALSE, isLocked |-> FALSE, hoveredComponent |-> NoComponent,
          hoveredElement |-> Null]
    ELSE IF context = NoContext
    THEN Throws("useInspection must be used within InspectionProvider")
    ELSE context

\* the config a component passes to useInspectionMetadata
hookConfig(componentName, instanceIndex) ==
    [kind |-> "hook", componentName |-> componentName, instanceIndex |-> instanceIndex,
     variant |-> "primary", role |-> Undefined, usagePath |-> "App",
     props |-> [variant |-> [kind |-> "string", text |-> "primary"]],
     sourceFile |-> "src/App.tsx"]

\* a prop value: its typeof and its String()
Value(kind, text) == [kind |-> kind, text |-> text]

\* the props objects formatPropsSignature is called with: none; allow-listed keys with
\* primitive values, written out of order; keys outside the allow-list; allow-listed
\* keys with an object, an undefined and a null value next to a number and a boolean
PropsInputs ==
    {<<>>,
     [variant |-> Value("string", "primary")],
     [disabled |-> Value("boolean", "true"), variant |-> Value("string", "primary")],
     [onClick |-> Value("function", "f"), className |-> Value("string", "card")],
     [variant |-> Value("object", "[object Object]"),
      role |-> Value("undefined", "undefined"),
      mode |-> Value("number", "2")],
     [type |-> Value("object", "null"), active |-> Value("boolean", "false"),
      status |-> Value("string", "")]}

\* what stays as it is when an operation of the module state is called
sessionKept ==
    UNCHANGED <<session, refs, hKeyPressedRef, touchRefs, isMobileRef, touches, dispatch,
                nodeEnv, tooltip>>

RECURSIVE allocated(_, _)
\* the number of instances the counters of names have handed out
allocated(counts, names) ==
    IF names = {} THEN 0
    ELSE LET name == CHOOSE n \in names : TRUE
         IN  getCount(counts, name) + allocated(counts, names \ {name})

-----------------------------------------------------------------------------
(* InspectionTooltip: position state, stable position and their effects *)

\* window.innerWidth and window.innerHeight of the model
InnerWidth == 1024

InnerHeight == 768

\* the tooltip's width and height as adjustedPosition estimates them
EstimatedWidth == 400

EstimatedHeight == 200

\* the padding kept to the window's edges and the offset from the cursor
EdgePadding == 10

CursorOffset == 15

\* the padding of the dead zone around the tooltip
DeadZonePx == 80

\* stablePosition = null; no timer pending
NoPosition == [null |-> TRUE]

\* where the pointer can be: next to the tooltip shown for the first point, far from it,
\* and near the right and bottom edges of the window
Points == {[x |-> 100, y |-> 100], [x |-> 150, y |-> 150], [x |-> 900, y |-> 700]}

\* no InspectionTooltip is rendered
NoTooltip == [none |-> TRUE]

\* displayComponent?.componentId of a committed state: the reported component's id, else
\* the reported element's id or "no-id", else null
displayComponentId(d, st) ==
    IF st.hoveredComponent # NoComponent THEN st.hoveredComponent.componentId
    ELSE IF st.hoveredElement # Null THEN OrElse(d[st.hoveredElement].id, "no-id")
    ELSE Null

\* adjustedPosition: where the tooltip is displayed
adjustedPosition(cid, t) ==
    IF cid = Null THEN [x |-> t.position.x + CursorOffset, y |-> t.position.y + CursorOffset]
    ELSE IF t.stablePosition # NoPosition THEN t.stablePosition
    ELSE LET x0 == t.position.x + CursorOffset
             y0 == t.position.y + CursorOffset
             x1 == IF x0 + EstimatedWidth > InnerWidth - EdgePadding
                   THEN t.position.x - EstimatedWidth - CursorOffset ELSE x0
             y1 == IF y0 + EstimatedHeight > InnerHeight - EdgePadding
                   THEN t.position.y - EstimatedHeight - CursorOffset ELSE y0
         IN  [x |-> Max(x1, EdgePadding), y |-> Max(y1, EdgePadding)]

\* the values the tooltip's effects depend on, in a render of the committed state st
tooltipDeps(d, st, t) ==
    [isInspectionActive |-> st.isInspectionActive, isLocked |-> st.isLocked,
     hoveredElement |-> st.hoveredElement, stablePosition |-> t.stablePosition,
     componentId |-> displayComponentId(d, st),
     adjustedPosition |-> adjustedPosition(displayComponentId(d, st), t)]

\* the position effect runs again: one of its dependencies changed since it ran last
positionEffectRuns(d, st, t) ==
    LET now == tooltipDeps(d, st, t)
    IN  <<now.isInspectionActive, now.isLocked, now.hoveredElement, now.stablePosition>>
          # <<t.ran.isInspectionActive, t.ran.isLocked, t.ran.hoveredElement,
              t.ran.stablePosition>>

\* the tooltip's three effects, run after a render of the committed state st: the
\* position effect registers updatePosition (with the stablePosition it closes over) or
\* removes it; the stable-position effect sets it at once when locked, else starts the
\* 50 ms timer for a new component; the reset effect clears it when unlocked. Of the
\* setStablePosition calls of one pass the last one wins
tooltipEffects(d, st, t) ==
    LET now == tooltipDeps(d, st, t)
        stableRuns == <<now.componentId, now.adjustedPosition, now.stablePosition,
                        now.isLocked>>
                        # <<t.ran.componentId, t.ran.adjustedPosition, t.ran.stablePosition,
                            t.ran.isLocked>>
        resetRuns == <<now.hoveredElement, now.isLocked>>
                       # <<t.ran.hoveredElement, t.ran.isLocked>>
        shown == /\ t.stablePosition = NoPosition
                 /\ now.componentId # Null
                 /\ now.adjustedPosition.x > 0
                 /\ now.adjustedPosition.y > 0
        setWhenLocked == stableRuns /\ st.isLocked /\ shown
        startTimer == stableRuns /\ ~setWhenLocked /\ shown
                      /\ now.componentId # t.lastComponentIdRef
        clearInPosition == /\ positionEffectRuns(d, st, t)
                           /\ (~st.isInspectionActive \/ st.hoveredElement = Null)
        clearInReset == resetRuns /\ ~st.isLocked
    IN  [position |-> t.position,
         stablePosition |-> IF clearInReset THEN NoPosition
                            ELSE IF setWhenLocked THEN now.adjustedPosition
                            ELSE IF clearInPosition THEN NoPosition
                            ELSE t.stablePosition,
         updatePosition |-> IF ~positionEffectRuns(d, st, t) THEN t.updatePosition
                            ELSE IF /\ st.isInspectionActive
                                    /\ st.hoveredElement # Null
                                    /\ ~st.isLocked
                                 THEN [stablePosition |-> t.stablePosition]
                                 ELSE NoListeners,
         timer |-> IF ~stableRuns THEN t.timer
                   ELSE IF startTimer THEN now.adjustedPosition ELSE NoPosition,
         lastComponentIdRef |-> IF startTimer THEN now.componentId
                                ELSE t.lastComponentIdRef,
         ran |-> now]

\* the tooltip once React ran its pending effects, if any are pending
flushed(d, st, t) ==
    IF t = NoTooltip \/ tooltipDeps(d, st, t) = t.ran THEN t ELSE tooltipEffects(d, st, t)

\* updatePosition: the listener (with the stablePosition it closed over) is called for a
\* mousemove at p while the tooltip of the committed state st is on the page (or not:
\* tooltipRef.current is null) and sets position and stablePosition, or leaves them
\* because the mouse is in the dead zone around the displayed tooltip
updatePositionSets(d, st, t, listener, p) ==
    LET rect == adjustedPosition(displayComponentId(d, st), t)
    IN  /\ listener # NoListeners
        /\ ~(/\ listener.stablePosition # NoPosition
             /\ st.isInspectionActive
             /\ displayComponentId(d, st) # Null
             /\ p.x >= rect.x - DeadZonePx
             /\ p.x <= rect.x + EstimatedWidth + DeadZonePx
             /\ p.y >= rect.y - DeadZonePx
             /\ p.y <= rect.y + EstimatedHeight + DeadZonePx)

\* InspectionTooltip mounted in the provider's initial state, its effects run
TooltipMounted ==
    [position |-> [x |-> 0, y |-> 0], stablePosition |-> NoPosition, updatePosition |-> NoListeners,
     timer |-> NoPosition, lastComponentIdRef |-> Null,
     ran |-> [isInspectionActive |-> FALSE, isLocked |-> FALSE, hoveredElement |-> Null,
              stablePosition |-> NoPosition, componentId |-> Null,
              adjustedPosition |-> [x |-> CursorOffset, y |-> CursorOffset]]]

-----------------------------------------------------------------------------
(* Events *)

\* the handler that ran, with the fields of its event it reads
Ev(h, key, ctrlKey, repeat, target, n) ==
    [h |-> h, key |-> key, ctrlKey |-> ctrlKey, repeat |-> repeat, target |-> target, n |-> n]

\* e.key.toLowerCase() for the keys of the model
toLowerCaseKey(key) == IF key = "H" THEN "h" ELSE key

Keys == {"h", "H", "Control", "a"}

\* the elements in the document
Attached == {e \in Elements : bodyContains(dom, e)}

\* the elements a pointer or touch event can have as its target
Targets == Attached \cup {"html"}

\* the elements useInspectionMetadata ("hook") or InspectionWrapper ("wrapper") instruments
Hooked(kind) == {e \in Elements : dom[e].hook.kind = kind /\ bodyContains(dom, e)}

Init ==
    /\ nodeEnv = "development"
    /\ windowFetch = 0
    /\ componentInstanceCounts = [name \in ComponentNames \cup {"Panel"} |->
                                     IF name \in {"Card", "Panel"} THEN 1 ELSE 0]
    /\ isInspectionActive = FALSE
    /\ isLocked = FALSE
    /\ hoveredComponent = NoComponent
    /\ hoveredElement = Null
    /\ isInspectionActiveRef = FALSE
    /\ isLockedRef = FALSE
    /\ hoveredComponentRef = NoComponent
    /\ hKeyPressedRef = FALSE
    /\ longPressTimerRef = FALSE
    /\ touchStartTimeRef = 0
    /\ lastTapRef = 0
    /\ isMobileRef \in BOOLEAN
    /\ tooltip \in {NoTooltip, TooltipMounted}
    /\ autoListeners = setupAutoInspection(FALSE, FALSE)
    /\ blockFlag = FALSE
    /\ dom = PageDom
    /\ touches = 0
    /\ dispatch = <<>>
    /\ last = Ev("mount", "", FALSE, FALSE, Null, 0)

\* a faulty deactivation that forgets setIsLocked(false)
deactivateKeepingLock ==
    <<<<"isInspectionActive", FALSE>>,
      <<"hoveredComponent", NoComponent>>, <<"hoveredElement", Null>>>>

\* the setState calls of a deactivation: handleKeyUp (Control), handleTouchEnd (short release)
deactivateUpdates ==
    <<<<"isInspectionActive", FALSE>>, <<"isLocked", FALSE>>,
      <<"hoveredComponent", NoComponent>>, <<"hoveredElement", Null>>>>

-----------------------------------------------------------------------------
(* Key handlers of InspectionProvider (registered once, reading the refs) *)

\* a faulty activation that does not look at e.repeat and starts the session unhovered
activateAlways(repeat) ==
    <<<<"isInspectionActive", TRUE>>, <<"hoveredComponent", NoComponent>>,
      <<"hoveredElement", Null>>>>

\* the setState calls of handleKeyDown's Control branch
controlKeyDownUpdates(repeat) ==
    IF ~repeat THEN <<<<"isInspectionActive", TRUE>>>> ELSE <<>>

\* handleKeyDown
handleKeyDown(key, ctrlKey, repeat) ==
    /\ dispatch = <<>>
    /\ last' = Ev("keyDown", key, ctrlKey, repeat, Null, 0)
    /\ IF toLowerCaseKey(key) = "h" /\ ctrlKey
       THEN IF ~repeat /\ isInspectionActiveRef /\ hoveredComponentRef # NoComponent
                /\ ~hKeyPressedRef
            THEN /\ hKeyPressedRef' = TRUE
                 /\ commit(rendered(<<<<"isLocked", TRUE>>>>, FALSE))
                 /\ UNCHANGED blockFlag
            ELSE /\ commit(rendered(<<>>, FALSE))
                 /\ UNCHANGED <<hKeyPressedRef, blockFlag>>
       ELSE IF key = "Control" /\ controlKeyDownUpdates(repeat) # <<>>
            THEN /\ commit(rendered(controlKeyDownUpdates(repeat), FALSE))
                 /\ setInspectionActive(TRUE)
                 /\ UNCHANGED hKeyPressedRef
            ELSE /\ commit(rendered(<<>>, FALSE))
                 /\ UNCHANGED <<hKeyPressedRef, blockFlag>>
    /\ UNCHANGED <<touchRefs, isMobileRef, dom, touches, dispatch>>

\* a faulty handleKeyUp whose H branch restores Active without asking whether H was
\* held for a lock or whether Control is still down
handleKeyUpRestoring(key, ctrlKey) ==
    /\ dispatch = <<>>
    /\ last' = Ev("keyUp", key, ctrlKey, FALSE, Null, 0)
    /\ IF toLowerCaseKey(key) = "h"
       THEN /\ hKeyPressedRef' = FALSE
            /\ commit(rendered(<<<<"isLocked", FALSE>>, <<"isInspectionActive", TRUE>>>>,
                               FALSE))
            /\ setInspectionActive(TRUE)
       ELSE IF key = "Control"
            THEN /\ commit(rendered(deactivateUpdates, FALSE))
                 /\ hKeyPressedRef' = FALSE
                 /\ setInspectionActive(FALSE)
            ELSE /\ commit(rendered(<<>>, FALSE))
                 /\ UNCHANGED <<hKeyPressedRef, blockFlag>>
    /\ UNCHANGED <<touchRefs, isMobileRef, dom, touches, dispatch>>

\* handleKeyUp
handleKeyUp(key, ctrlKey) ==
    /\ dispatch = <<>>
    /\ last' = Ev("keyUp", key, ctrlKey, FALSE, Null, 0)
    /\ IF toLowerCaseKey(key) = "h"
       THEN /\ IF hKeyPressedRef
               THEN /\ hKeyPressedRef' = FALSE
                    /\ IF isLockedRef /\ ctrlKey /\ isInspectionActiveRef
                       THEN commit(rendered(<<<<"isLocked", FALSE>>>>, FALSE))
                       ELSE commit(rendered(<<>>, FALSE))
               ELSE /\ commit(rendered(<<>>, FALSE))
                    /\ UNCHANGED hKeyPressedRef
            /\ UNCHANGED blockFlag
       ELSE IF key = "Control"
            THEN /\ commit(rendered(deactivateUpdates, FALSE))
                 /\ hKeyPressedRef' = FALSE
                 /\ setInspectionActive(FALSE)
            ELSE /\ commit(rendered(<<>>, FALSE))
                 /\ UNCHANGED <<hKeyPressedRef, blockFlag>>
    /\ UNCHANGED <<touchRefs, isMobileRef, dom, touches, dispatch>>

-----------------------------------------------------------------------------
(* Listeners of setupAutoInspection (they read the flags they closed over) *)

\* what a pointer handler leaves alone
pointerFrame == UNCHANGED <<hKeyPressedRef, touchRefs, isMobileRef, blockFlag, dom>>

\* the call handleMouseMove makes to setHoveredComponent, if it makes one
mouseMoveCall(target) ==
    IF ~autoListeners.isInspectionActive THEN NoCall
    ELSE IF autoListeners.isLocked THEN NoCall
    ELSE inspectElement(dom, target, autoListeners.isInspectionActive,
                        autoListeners.isLocked)

\* handleMouseMove; batched: whether React batches the setState calls of this listener
handleMouseMove(target, batched) ==
    /\ dispatch = <<>>
    /\ last' = Ev("autoMouseMove", "", FALSE, FALSE, target, 0)
    /\ commit(rendered(hoveredUpdates(mouseMoveCall(target)), batched))
    /\ UNCHANGED <<dispatch, touches>>
    /\ pointerFrame

\* handleMouseLeave
handleMouseLeave(batched) ==
    /\ dispatch = <<>>
    /\ last' = Ev("autoMouseLeave", "", FALSE, FALSE, Null, 0)
    /\ LET call == IF autoListeners.isInspectionActive /\ ~autoListeners.isLocked
                   THEN Call(NoComponent, Null) ELSE NoCall
       IN  commit(rendered(hoveredUpdates(call), batched))
    /\ UNCHANGED <<dispatch, touches>>
    /\ pointerFrame

\* handleTouchMove: target is document.elementFromPoint() of the first touch
handleTouchMove(target, batched) ==
    /\ dispatch = <<>>
    /\ isMobileRef
    /\ touches > 0
    /\ last' = Ev("autoTouchMove", "", FALSE, FALSE, target, 0)
    /\ LET call == IF ~autoListeners.isInspectionActive \/ touches = 0 THEN NoCall
                   ELSE IF target # Null
                        THEN inspectElement(dom, target, autoListeners.isInspectionActive,
                                            autoListeners.isLocked)
                        ELSE NoCall
       IN  commit(rendered(hoveredUpdates(call), batched))
    /\ UNCHANGED <<dispatch, touches>>
    /\ pointerFrame

\* handleTouchStart of setupAutoInspection, the next listener of the event in flight
autoHandleTouchStart(q) ==
    /\ Head(q).h = "autoTouchStart"
    /\ last' = Head(q)
    /\ LET e == Head(q)
           call == IF ~autoListeners.isInspectionActive \/ e.n = ActivationTouches
                   THEN NoCall
                   ELSE IF e.target # Null
                        THEN inspectElement(dom, e.target, autoListeners.isInspectionActive,
                                            autoListeners.isLocked)
                        ELSE NoCall
           r == rendered(hoveredUpdates(call), FALSE)
       IN  commit(r) /\ dispatch' = remaining(r, q)
    /\ pointerFrame

\* handleTouchEnd of setupAutoInspection, the next listener of the event in flight
autoHandleTouchEnd(q) ==
    /\ Head(q).h = "autoTouchEnd"
    /\ last' = Head(q)
    /\ LET call == IF autoListeners.isInspectionActive /\ ~autoListeners.isLocked
                   THEN Call(NoComponent, Null) ELSE NoCall
           r == rendered(hoveredUpdates(call), FALSE)
       IN  commit(r) /\ dispatch' = remaining(r, q)
    /\ pointerFrame

-----------------------------------------------------------------------------
(* Handlers of useInspectionMetadata and InspectionWrapper: made by each render, so  *)
(* they read the committed isInspectionActive; React batches their setState calls   *)

\* onMouseEnter of useInspectionMetadata
hookHandleMouseEnter(e) ==
    /\ dispatch = <<>>
    /\ e \in Hooked("hook")
    /\ last' = Ev("hookMouseEnter", "", FALSE, FALSE, e, 0)
    /\ commit(rendered(hoveredUpdates(hookEnter(dom, e, isInspectionActive)), TRUE))
    /\ UNCHANGED <<dispatch, touches>>
    /\ pointerFrame

\* onMouseLeave of useInspectionMetadata
hookHandleMouseLeave(e) ==
    /\ dispatch = <<>>
    /\ e \in Hooked("hook")
    /\ last' = Ev("hookMouseLeave", "", FALSE, FALSE, e, 0)
    /\ commit(rendered(hoveredUpdates(hookLeave(isInspectionActive)), TRUE))
    /\ UNCHANGED <<dispatch, touches>>
    /\ pointerFrame

\* onTouchStart of useInspectionMetadata, the next listener of the event in flight (the
\* hook's onTouchEnd writes nothing and is left out)
hookHandleTouchStart(q) ==
    /\ Head(q).h = "hookTouchStart"
    /\ last' = Head(q)
    /\ LET r == rendered(hoveredUpdates(hookEnter(dom, Head(q).target,
                                                  isInspectionActive)), TRUE)
       IN  commit(r) /\ dispatch' = remaining(r, q)
    /\ pointerFrame

\* onMouseEnter of InspectionWrapper
wrapperHandleMouseEnter(e) ==
    /\ dispatch = <<>>
    /\ e \in Hooked("wrapper")
    /\ last' = Ev("wrapperMouseEnter", "", FALSE, FALSE, e, 0)
    /\ commit(rendered(hoveredUpdates(hookEnter(dom, e, isInspectionActive)), TRUE))
    /\ UNCHANGED <<dispatch, touches>>
    /\ pointerFrame

\* onMouseLeave of InspectionWrapper
wrapperHandleMouseLeave(e) ==
    /\ dispatch = <<>>
    /\ e \in Hooked("wrapper")
    /\ last' = Ev("wrapperMouseLeave", "", FALSE, FALSE, e, 0)
    /\ commit(rendered(hoveredUpdates(hookLeave(isInspectionActive)), TRUE))
    /\ UNCHANGED <<dispatch, touches>>
    /\ pointerFrame

-----------------------------------------------------------------------------
(* Touch handlers of InspectionProvider (registered once, reading the refs) *)

\* a touch-start handler that starts no long-press timer
handleTouchStartNoTimer(q) ==
    /\ Head(q).h = "touchStart"
    /\ last' = Head(q)
    /\ LET r == rendered(<<>>, FALSE)
       IN  commit(r) /\ dispatch' = remaining(r, q)
    /\ UNCHANGED <<hKeyPressedRef, touchRefs, blockFlag, isMobileRef, dom>>

\* handleTouchStart, the next listener of the event in flight
handleTouchStart(q) ==
    /\ Head(q).h = "touchStart"
    /\ last' = Head(q)
    /\ IF isMobileRef /\ Head(q).n = ActivationTouches
       THEN /\ touchStartTimeRef' = Now
            /\ longPressTimerRef' = TRUE
       ELSE UNCHANGED <<touchStartTimeRef, longPressTimerRef>>
    /\ LET r == rendered(<<>>, FALSE)
       IN  commit(r) /\ dispatch' = remaining(r, q)
    /\ UNCHANGED <<hKeyPressedRef, lastTapRef, blockFlag, isMobileRef, dom>>

\* the callback of the long-press timeout
longPressTimeout ==
    /\ dispatch = <<>>
    /\ longPressTimerRef
    /\ Now - touchStartTimeRef >= LongPressMs
    /\ last' = Ev("longPressTimeout", "", FALSE, FALSE, Null, 0)
    /\ longPressTimerRef' = FALSE
    /\ commit(rendered(<<<<"isInspectionActive", TRUE>>>>, FALSE))
    /\ setInspectionActive(TRUE)
    /\ UNCHANGED <<hKeyPressedRef, touchStartTimeRef, lastTapRef, isMobileRef, dom, touches,
                   dispatch>>

\* handleTouchEnd, the next listener of the event in flight
handleTouchEnd(q) ==
    /\ Head(q).h = "touchEnd"
    /\ last' = Head(q)
    /\ IF ~isMobileRef
       THEN /\ LET r == rendered(<<>>, FALSE)
               IN  commit(r) /\ dispatch' = remaining(r, q)
            /\ UNCHANGED <<hKeyPressedRef, touchRefs, blockFlag>>
       ELSE LET timeSinceLastTap == Now - lastTapRef
                doubleTap == timeSinceLastTap < DoubleTapMs /\ timeSinceLastTap > 0
                tap == IF ~doubleTap THEN <<>>
                       ELSE IF isInspectionActiveRef /\ hoveredComponentRef # NoComponent
                               /\ ~isLockedRef
                       THEN <<<<"isLocked", TRUE>>>>
                       ELSE IF isLockedRef THEN <<<<"isLocked", FALSE>>>>
                       ELSE <<>>
                touchDuration == Now - touchStartTimeRef
                release == Head(q).n = 0 /\ isInspectionActiveRef
                           /\ touchDuration < LongPressMs
                r == rendered(tap \o (IF release THEN deactivateUpdates ELSE <<>>), FALSE)
            IN  /\ longPressTimerRef' = FALSE
                /\ lastTapRef' = IF doubleTap THEN 0 ELSE Now
                /\ UNCHANGED touchStartTimeRef
                /\ commit(r)
                /\ dispatch' = remaining(r, q)
                /\ IF release
                   THEN hKeyPressedRef' = FALSE /\ setInspectionActive(FALSE)
                   ELSE UNCHANGED <<hKeyPressedRef, blockFlag>>
    /\ UNCHANGED <<isMobileRef, dom>>

\* a touchcancel handler that leaves the long-press timer pending
handleTouchCancelKeepsTimer(n) ==
    /\ dispatch = <<>>
    /\ isMobileRef
    /\ n < touches
    /\ touches' = n
    /\ last' = Ev("touchCancel", "", FALSE, FALSE, Null, n)
    /\ commit(rendered(<<>>, FALSE))
    /\ UNCHANGED <<hKeyPressedRef, touchRefs, isMobileRef, blockFlag, dom, dispatch>>

\* handleTouchCancel, for a touchcancel event with n touches remaining
handleTouchCancel(n) ==
    /\ dispatch = <<>>
    /\ isMobileRef
    /\ n < touches
    /\ touches' = n
    /\ last' = Ev("touchCancel", "", FALSE, FALSE, Null, n)
    /\ longPressTimerRef' = IF isMobileRef THEN FALSE ELSE longPressTimerRef
    /\ commit(rendered(<<>>, FALSE))
    /\ UNCHANGED <<hKeyPressedRef, touchStartTimeRef, lastTapRef, isMobileRef, blockFlag, dom,
                   dispatch>>

-----------------------------------------------------------------------------
(* The environment: touch events, the clock, React's scheduler, the document *)

\* the onTouchStart handlers of the hook on the target's chain, innermost first
hookListeners(target) ==
    LET chain == SelectSeq(Ancestors(dom, target), LAMBDA e : dom[e].hook.kind = "hook")
    IN  [i \in 1..Len(chain) |-> Ev("hookTouchStart", "", FALSE, FALSE, chain[i], 0)]

\* the browser calls the next listener of an event, q being the listeners it has not
\* called yet
deliver(q) ==
    \/ hookHandleTouchStart(q)
    \/ handleTouchStart(q)
    \/ autoHandleTouchStart(q)
    \/ handleTouchEnd(q)
    \/ autoHandleTouchEnd(q)

\* a touchstart event arrives (on a device with touch support) and its first listener is
\* called: React's handlers come first, then the window listeners in the order they were
\* registered
touchStartEvent(n, target) ==
    /\ dispatch = <<>>
    /\ isMobileRef
    /\ n > touches
    /\ n <= MaxTouches
    /\ touches' = n
    /\ deliver(hookListeners(target)
               \o <<Ev("touchStart", "", FALSE, FALSE, Null, n),
                    Ev("autoTouchStart", "", FALSE, FALSE, target, n)>>)

\* the elements a finger is lifted from
TapTargets == {"e2", "e3"}

\* a touchend event arrives on target, n touches remaining, and its first listener is
\* called
touchEndEvent(n, target) ==
    /\ dispatch = <<>>
    /\ isMobileRef
    /\ n < touches
    /\ touches' = n
    /\ deliver(<<Ev("touchEnd", "", FALSE, FALSE, target, n),
                 Ev("autoTouchEnd", "", FALSE, FALSE, target, 0)>>)

\* the next listener of the event in flight is called
nextListener ==
    /\ dispatch # <<>>
    /\ deliver(dispatch)
    /\ UNCHANGED touches

\* a stored timestamp after TickMs more have passed: 0 once its age reaches the horizon
aged(t, horizon) == IF Now - (t - TickMs) >= horizon THEN 0 ELSE t - TickMs

\* time passes
Tick ==
    /\ dispatch = <<>>
    /\ touchStartTimeRef' = aged(touchStartTimeRef, LongPressMs)
    /\ lastTapRef' = aged(lastTapRef, DoubleTapMs)
    /\ UNCHANGED <<session, refs, hKeyPressedRef, longPressTimerRef, isMobileRef,
                   autoListeners, blockFlag, dom, touches, dispatch, last>>

\* React runs the provider's pending effects: the refs take the committed state, and when
\* isInspectionActive or isLocked changed the auto-inspection listeners are removed and
\* registered again (a removed listener is not called for the event in flight)
FlushEffects ==
    /\ Seen # syncRefs(State)
    /\ isInspectionActiveRef' = isInspectionActive
    /\ isLockedRef' = isLocked
    /\ hoveredComponentRef' = hoveredComponent
    /\ autoListeners' = setupAutoInspection(isInspectionActive, isLocked)
    /\ dispatch' = IF autoListeners # setupAutoInspection(isInspectionActive, isLocked)
                   THEN SelectSeq(dispatch, LAMBDA l : l.h \notin AutoHandlers)
                   ELSE dispatch
    /\ UNCHANGED <<session, hKeyPressedRef, touchRefs, isMobileRef, blockFlag, dom,
                   touches, last>>

\* the most elements the application removes from the document in one run
MaxRemovals == 1

\* the elements removed from the document so far
Removed == {e \in Elements \ {"html"} : dom[e].parent = Null}

\* the application removes an element, with its subtree, from the document
removeElement(e) ==
    /\ dispatch = <<>>
    /\ e \in Attached \ {"html", "body"}
    /\ Cardinality(Removed) < MaxRemovals
    /\ dom' = removeChild(dom, e)
    /\ UNCHANGED <<session, refs, hKeyPressedRef, touchRefs, isMobileRef, autoListeners,
                   blockFlag, touches, dispatch, last>>

-----------------------------------------------------------------------------
(* The session model *)

\* keyboard events
KeyEvents ==
    \/ \E key \in Keys, ctrlKey \in BOOLEAN, repeat \in BOOLEAN :
          handleKeyDown(key, ctrlKey, repeat)
    \/ \E key \in Keys, ctrlKey \in BOOLEAN : handleKeyUp(key, ctrlKey)

\* mouse events: the auto-inspection listeners and the instrumented elements' handlers
MouseEvents ==
    \/ \E target \in Targets, batched \in BOOLEAN : handleMouseMove(target, batched)
    \/ \E batched \in BOOLEAN : handleMouseLeave(batched)
    \/ \E e \in Elements : hookHandleMouseEnter(e)
    \/ \E e \in Elements : hookHandleMouseLeave(e)
    \/ \E e \in Elements : wrapperHandleMouseEnter(e)
    \/ \E e \in Elements : wrapperHandleMouseLeave(e)

\* touch events, their listeners, the long-press timeout and the clock
TouchEvents ==
    \/ \E n \in 1..MaxTouches, target \in Targets : touchStartEvent(n, target)
    \/ \E n \in 0..MaxTouches, target \in TapTargets : touchEndEvent(n, target)
    \/ \E n \in 0..MaxTouches : handleTouchCancel(n)
    \/ \E target \in Targets \cup {Null}, batched \in BOOLEAN : handleTouchMove(target, batched)
    \/ nextListener
    \/ longPressTimeout
    \/ Tick

\* a desktop browser: keyboard and mouse, no touch support
Next ==
    /\ \/ KeyEvents
       \/ MouseEvents
       \/ FlushEffects
       \/ \E e \in Elements : removeElement(e)
    /\ UNCHANGED <<moduleState, tooltip>>

\* the provider mounted where checkMobile() finds no touch support
InitDesktop == Init /\ isMobileRef = FALSE /\ tooltip = NoTooltip

Spec == InitDesktop /\ [][Next]_vars

\* a touch device: touch gestures, and the mouse events the browser derives from them
NextTouch ==
    /\ \/ TouchEvents
       \/ MouseEvents
       \/ FlushEffects
    /\ UNCHANGED <<moduleState, tooltip>>

\* the provider mounted where checkMobile() finds touch support
InitTouch == Init /\ isMobileRef = TRUE /\ tooltip = NoTooltip

SpecTouch == InitTouch /\ [][NextTouch]_vars

-----------------------------------------------------------------------------
(* The page with an InspectionTooltip: keyboard, mouse, effects, the 50 ms timer *)

\* a mousemove at p over target: handleMouseMove of the auto-inspection, then the
\* tooltip's updatePosition, both listeners of window. When handleMouseMove's setState
\* calls are rendered as they are made, the effects pending run before updatePosition
\* is called, and a listener they remove is not called for this event. updatePosition
\* calls setPosition({x, y}) and setStablePosition(null)
mouseMoveEvent(target, batched, p) ==
    /\ handleMouseMove(target, batched)
    /\ LET committedFirst == ~batched /\ State' # State
           listener == IF committedFirst /\ positionEffectRuns(dom, State, tooltip)
                       THEN NoListeners ELSE tooltip.updatePosition
           shownIn == IF committedFirst THEN State' ELSE State
           before == IF State' # State THEN flushed(dom, State, tooltip) ELSE tooltip
       IN  tooltip' =
              IF ~updatePositionSets(dom, shownIn, before, listener, p) THEN before
              ELSE [(IF committedFirst THEN flushed(dom, State', before)
                     ELSE flushed(dom, State, tooltip))
                       EXCEPT !.position = p, !.stablePosition = NoPosition]

\* React runs the pending effects of the provider and of the tooltip
flushTooltipEffects ==
    /\ tooltipDeps(dom, State, tooltip) # tooltip.ran \/ Seen # syncRefs(State)
    /\ tooltip' = flushed(dom, State, tooltip)
    /\ IF Seen # syncRefs(State) THEN FlushEffects
       ELSE UNCHANGED <<session, refs, hKeyPressedRef, touchRefs, isMobileRef, autoListeners,
                        blockFlag, dom, touches, dispatch, last>>

\* the 50 ms timer of the stable-position effect fires, unless the effects pending
\* cleared it: setStablePosition(adjustedPosition) with the position it closed over
stablePositionTimer ==
    /\ tooltip.timer # NoPosition
    /\ LET before == flushed(dom, State, tooltip)
       IN  tooltip' = IF before.timer = NoPosition THEN before
                      ELSE [before EXCEPT !.stablePosition = before.timer,
                                          !.timer = NoPosition]
    /\ UNCHANGED <<session, refs, hKeyPressedRef, touchRefs, isMobileRef, autoListeners,
                   blockFlag, dom, touches, dispatch, last>>

\* the page with the tooltip: the Control and H keys, the mouse over e2 or over the
\* page's margin (html). When a key handler committed, React ran the tooltip's pending
\* effects, on the state they were pending for, before
NextTooltip ==
    /\ \/ \E key \in {"Control", "h"}, ctrlKey \in BOOLEAN :
             /\ handleKeyDown(key, ctrlKey, FALSE)
             /\ tooltip' = IF State' # State THEN flushed(dom, State, tooltip) ELSE tooltip
       \/ \E key \in {"Control", "h"}, ctrlKey \in BOOLEAN :
             /\ handleKeyUp(key, ctrlKey)
             /\ tooltip' = IF State' # State THEN flushed(dom, State, tooltip) ELSE tooltip
       \/ \E target \in {"e2", "html"}, batched \in BOOLEAN, p \in Points :
             mouseMoveEvent(target, batched, p)
       \/ flushTooltipEffects
       \/ stablePositionTimer
    /\ UNCHANGED moduleState

\* a desktop browser, the provider mounted with an InspectionTooltip below it
InitTooltip == Init /\ isMobileRef = FALSE /\ tooltip = TooltipMounted

SpecTooltip == InitTooltip /\ [][NextTooltip]_vars

-----------------------------------------------------------------------------
(* The walker on its own: inspectElement applied to every document and target *)

\* the session in any of its modes (inactive; active with nothing or e1 reported; locked
\* on e1), over any of the walker's documents
InitWalker ==
    /\ nodeEnv = "development"
    /\ windowFetch = 0
    /\ componentInstanceCounts = resetInstanceCounts
    /\ tooltip = NoTooltip
    /\ isInspectionActive \in BOOLEAN
    /\ isLocked \in {l \in BOOLEAN : l => isInspectionActive}
    /\ dom \in WalkerDocuments
    /\ hoveredElement \in {e \in {Null, "e1"} : /\ isLocked => e # Null
                                                /\ e # Null => isInspectionActive}
    /\ hoveredComponent = IF hoveredElement = Null THEN NoComponent
                          ELSE parseInspectionMetadata(dom, hoveredElement)
    /\ isInspectionActiveRef = isInspectionActive
    /\ isLockedRef = isLocked
    /\ hoveredComponentRef = hoveredComponent
    /\ hKeyPressedRef = isLocked
    /\ longPressTimerRef = FALSE
    /\ touchStartTimeRef = 0
    /\ lastTapRef = 0
    /\ isMobileRef = FALSE
    /\ autoListeners = setupAutoInspection(isInspectionActive, isLocked)
    /\ blockFlag = isInspectionActive
    /\ touches = 0
    /\ dispatch = <<>>
    /\ last = Ev("mount", "", FALSE, FALSE, Null, 0)

\* inspectElement is called with the session's flags and the provider's
\* setHoveredComponent; last keeps the call it made
inspect(target) ==
    /\ last.h = "mount"
    /\ LET call == inspectElement(dom, target, isInspectionActive, isLocked)
       IN  /\ last' = [h |-> "inspectElement", target |-> target, call |-> call]
           /\ commit(rendered(hoveredUpdates(call), FALSE))
    /\ UNCHANGED <<dispatch, touches>>
    /\ pointerFrame

\* formatMetadataForClipboard is called, as handleCopy of the tooltip calls it, with the
\* metadata parseInspectionMetadata returns for an element and the element; last keeps
\* the lines
callFormatMetadataForClipboard(e, content) ==
    /\ last.h = "mount"
    /\ e \in Attached
    /\ last' = [h |-> "formatMetadataForClipboard", target |-> e,
                lines |-> formatMetadataForClipboard(parseInspectionMetadata(dom, e), dom, e,
                                                     content)]
    /\ UNCHANGED <<session, refs, autoListeners, dispatch, touches>>
    /\ pointerFrame

NextWalker ==
    /\ \/ \E target \in Elements \cup {Null} : inspect(target)
       \/ \E e \in Elements, content \in ClipboardContents :
             callFormatMetadataForClipboard(e, content)
    /\ UNCHANGED <<moduleState, tooltip>>

SpecWalker == InitWalker /\ [][NextWalker]_vars

-----------------------------------------------------------------------------
(* The exported operations called on their own, in any NODE_ENV             *)

\* the exported operation called last, with its argument and, for fetch and
\* getNextInstanceIndex, its result
Returned(h, args, result) == [h |-> h, args |-> args, result |-> result]

\* the provider mounted in development or in a production build; no component
\* instrumented yet, no interceptor installed
InitExports ==
    /\ nodeEnv \in {"development", "production"}
    /\ windowFetch = 0
    /\ componentInstanceCounts = resetInstanceCounts
    /\ tooltip = NoTooltip
    /\ isInspectionActive = FALSE
    /\ isLocked = FALSE
    /\ hoveredComponent = NoComponent
    /\ hoveredElement = Null
    /\ isInspectionActiveRef = FALSE
    /\ isLockedRef = FALSE
    /\ hoveredComponentRef = NoComponent
    /\ hKeyPressedRef = FALSE
    /\ longPressTimerRef = FALSE
    /\ touchStartTimeRef = 0
    /\ lastTapRef = 0
    /\ isMobileRef = FALSE
    /\ autoListeners = IF nodeEnv # "development" THEN NoListeners
                       ELSE setupAutoInspection(FALSE, FALSE)
    /\ blockFlag = FALSE
    /\ dom = Skeleton
    /\ touches = 0
    /\ dispatch = <<>>
    /\ last = Returned("mount", Null, Undefined)

callSetInspectionActive(active) ==
    /\ setInspectionActive(active)
    /\ last' = Returned("setInspectionActive", Null, Undefined)
    /\ UNCHANGED <<autoListeners, dom, windowFetch, componentInstanceCounts>>
    /\ sessionKept

callShouldBlockRequest ==
    /\ last' = Returned("shouldBlockRequest", Null, shouldBlockRequest)
    /\ UNCHANGED <<autoListeners, dom, blockFlag, windowFetch, componentInstanceCounts>>
    /\ sessionKept

callSetupInterceptors ==
    /\ windowFetch < MaxInterceptors
    /\ windowFetch' = setupInterceptors
    /\ last' = Returned("setupInterceptors", Null, Undefined)
    /\ UNCHANGED <<autoListeners, dom, blockFlag, componentInstanceCounts>>
    /\ sessionKept

\* the application calls window.fetch(args)
callFetch(args) ==
    /\ last' = Returned("fetch", args, fetch(windowFetch, args))
    /\ UNCHANGED <<autoListeners, dom, blockFlag, windowFetch, componentInstanceCounts>>
    /\ sessionKept

callGetNextInstanceIndex(componentName) ==
    /\ allocated(componentInstanceCounts, ComponentNames) < MaxInstances
    /\ LET next == getNextInstanceIndex(componentName)
       IN  /\ componentInstanceCounts' = next.counts
           /\ last' = Returned("getNextInstanceIndex", componentName, next.index)
    /\ UNCHANGED <<autoListeners, dom, blockFlag, windowFetch>>
    /\ sessionKept

callResetInstanceCounts ==
    /\ componentInstanceCounts' = resetInstanceCounts
    /\ last' = Returned("resetInstanceCounts", Null, Undefined)
    /\ UNCHANGED <<autoListeners, dom, blockFlag, windowFetch>>
    /\ sessionKept

callParseInspectionMetadata(e) ==
    /\ last' = Returned("parseInspectionMetadata", e, parseInspectionMetadata(dom, e))
    /\ UNCHANGED <<autoListeners, dom, blockFlag, windowFetch, componentInstanceCounts>>
    /\ sessionKept

callSetupAutoInspection(active, locked) ==
    /\ autoListeners' = setupAutoInspection(active, locked)
    /\ last' = Returned("setupAutoInspection", Null, Undefined)
    /\ UNCHANGED <<dom, blockFlag, windowFetch, componentInstanceCounts>>
    /\ sessionKept

callFormatPropsSignature(props) ==
    /\ last' = Returned("formatPropsSignature", props, formatPropsSignature(props))
    /\ UNCHANGED <<autoListeners, dom, blockFlag, windowFetch, componentInstanceCounts>>
    /\ sessionKept

\* a component calls useInspection below an InspectionProvider (provided) or outside
\* every provider
callUseInspection(provided) ==
    /\ last' = Returned("useInspection", provided,
                        useInspection(IF provided THEN State ELSE NoContext))
    /\ UNCHANGED <<autoListeners, dom, blockFlag, windowFetch, componentInstanceCounts>>
    /\ sessionKept

\* a component calls the setHoveredComponent of the context with the metadata of e
callSetHoveredComponent(e) ==
    /\ last' = Returned("setHoveredComponent", e, Undefined)
    /\ commit(rendered(setHoveredComponent(dom, IF e = Null THEN NoComponent
                                                 ELSE parseInspectionMetadata(dom, e), e),
                       TRUE))
    /\ UNCHANGED <<hKeyPressedRef, touchRefs, isMobileRef, touches, dispatch, dom, blockFlag,
                   moduleState, tooltip>>

\* a component that calls useInspectionMetadata renders for the first time and spreads
\* the props the hook returns on the element e
callUseInspectionMetadata(e, componentName, provided) ==
    /\ e \in Attached \ {"html", "body"}
    /\ dom[e].hook = NoHook
    /\ allocated(componentInstanceCounts, ComponentNames) < MaxInstances
    /\ LET context == useInspection(IF provided THEN State ELSE NoContext)
           next == getNextInstanceIndex(componentName)
           mounted == [dom EXCEPT ![e].hook = hookConfig(componentName, next.index)]
           metadata == hookMetadata(mounted, e)
       IN  IF "throws" \in DOMAIN context
           THEN /\ last' = Returned("useInspectionMetadata", e, context)
                /\ UNCHANGED <<componentInstanceCounts, dom>>
           ELSE /\ componentInstanceCounts' = next.counts
                /\ dom' = [mounted EXCEPT ![e].cid = metadata.componentId,
                                          ![e].name = componentName]
                /\ last' = Returned("useInspectionMetadata", e,
                                    [dataInspectionId |-> metadata.componentId,
                                     dataInspectionName |-> componentName])
    /\ UNCHANGED <<autoListeners, blockFlag, windowFetch>>
    /\ sessionKept

NextExports ==
    \/ \E active \in BOOLEAN : callSetInspectionActive(active)
    \/ callShouldBlockRequest
    \/ callSetupInterceptors
    \/ \E args \in Requests : callFetch(args)
    \/ \E componentName \in ComponentNames : callGetNextInstanceIndex(componentName)
    \/ callResetInstanceCounts
    \/ callParseInspectionMetadata("e2")
    \/ \E active \in BOOLEAN : callSetupAutoInspection(active, FALSE)
    \/ \E provided \in BOOLEAN : callUseInspection(provided)
    \/ \E props \in PropsInputs : callFormatPropsSignature(props)
    \/ \E e \in {"e2", Null} : callSetHoveredComponent(e)
    \/ \E componentName \in ComponentNames, provided \in BOOLEAN :
           callUseInspectionMetadata("e2", componentName, provided)

SpecExports == InitExports /\ [][NextExports]_vars

-----------------------------------------------------------------------------
(* Properties *)

\* the reported pair
hovered == <<hoveredComponent, hoveredElement>>

\* the session is Inactive and reports nothing
Inactive ==
    /\ ~isInspectionActive
    /\ ~isLocked
    /\ hoveredComponent = NoComponent
    /\ hoveredElement = Null

\* C1: once handleKeyUp has handled a Control key-up, from whatever state, the session
\* is inactive and unlocked, reports no component and no element, and H does not count
\* as held
C1_ControlKeyUpClears ==
    (last.h = "keyUp" /\ last.key = "Control") => (Inactive /\ ~hKeyPressedRef)

\* a Control key-up has just ended an active session (the ref still shows it active)
C1_Witness ==
    /\ last.h = "keyUp"
    /\ last.key = "Control"
    /\ isInspectionActiveRef
    /\ Inactive

\* C2: while isLocked is true, a step of the auto-inspection listeners for pointer moves
\* (mousemove, touchmove, touchstart) leaves the reported pair as it is
C2_LockFreezesPointerMoves ==
    [][(isLocked /\ last'.h \in {"autoMouseMove", "autoTouchMove", "autoTouchStart"})
           => hovered' = hovered]_vars

\* C3: while isLocked is true and no effect is pending, a step of the handlers of
\* useInspectionMetadata and InspectionWrapper, or of the auto-inspection mouseleave and
\* touchend listeners, leaves the reported pair as it is
C3_LockFreezesEveryPointerHandler ==
    [][(/\ isLocked
        /\ Seen = syncRefs(State)
        /\ autoListeners = setupAutoInspection(isInspectionActive, isLocked)
        /\ last'.h \in {"hookMouseEnter", "hookMouseLeave", "hookTouchStart",
                        "wrapperMouseEnter", "wrapperMouseLeave",
                        "autoMouseLeave", "autoTouchEnd"})
           => hovered' = hovered]_vars

\* C4: an H key-down with Control held, in an unlocked session, locks it exactly when the
\* event is no repeat, inspection is active, a component is reported and H is not held;
\* in every other case it leaves isLocked, the H-held flag and the reported pair alone
C4_HKeyDownLocksIff ==
    [][\A key \in {"h", "H"}, repeat \in BOOLEAN :
           (~isLocked /\ handleKeyDown(key, TRUE, repeat)) =>
               IF /\ ~repeat
                  /\ isInspectionActive
                  /\ hoveredComponent # NoComponent
                  /\ ~hKeyPressedRef
               THEN isLocked' /\ isInspectionActive' /\ hovered' = hovered
               ELSE UNCHANGED <<isLocked, hKeyPressedRef, hoveredComponent, hoveredElement>>]_vars

\* C5: in a session locked by pressing H (H still held), an H key-up with Control held
\* unlocks the session and keeps it active
C5_HKeyUpUnlocks ==
    [][\A key \in {"h", "H"} :
           (isInspectionActive /\ isLocked /\ hKeyPressedRef /\ handleKeyUp(key, TRUE))
               => (~isLocked' /\ isInspectionActive')]_vars

\* C6: an H key-up in the Inactive state a Control release leaves behind (nothing
\* reported, requests not blocked) changes none of this, held Control or not
C6_HKeyUpStaysInactive ==
    [][\A key \in {"h", "H"}, ctrlKey \in BOOLEAN :
           (Inactive /\ ~blockFlag /\ handleKeyUp(key, ctrlKey))
               => (Inactive /\ ~blockFlag)']_vars

\* an H key-up without Control has been handled after a Control release ended the session
\* (the ref still shows it active), and the session is Inactive
C6_Witness ==
    /\ last.h = "keyUp"
    /\ toLowerCaseKey(last.key) = "h"
    /\ ~last.ctrlKey
    /\ isInspectionActiveRef
    /\ Inactive
    /\ ~blockFlag
    /\ ~hKeyPressedRef

\* C7: a Control key-down that is no repeat makes the session active and leaves isLocked
\* and the reported pair alone; one with repeat = true changes nothing of the session
C7_ControlKeyDownActivates ==
    [][\A ctrlKey \in BOOLEAN :
           /\ handleKeyDown("Control", ctrlKey, FALSE)
                 => (isInspectionActive' /\ UNCHANGED <<isLocked, hoveredComponent, hoveredElement>>)
           /\ handleKeyDown("Control", ctrlKey, TRUE)
                 => UNCHANGED <<session, hKeyPressedRef, blockFlag>>]_vars

\* a Control key-down has just activated an inactive session (the ref still shows it
\* inactive)
C7_Witness ==
    /\ last.h = "keyDown"
    /\ last.key = "Control"
    /\ ~last.repeat
    /\ isInspectionActive
    /\ ~isInspectionActiveRef
    /\ ~isLocked
    /\ blockFlag

\* C8: whenever handleKeyDown or handleKeyUp runs, the three refs it reads hold the
\* session state of that moment
C8_HandlersReadCurrentState ==
    [][((\E key \in Keys, ctrlKey \in BOOLEAN, repeat \in BOOLEAN :
            handleKeyDown(key, ctrlKey, repeat))
        \/ (\E key \in Keys, ctrlKey \in BOOLEAN : handleKeyUp(key, ctrlKey)))
           => Seen = syncRefs(State)]_vars

\* the target and its ancestors below body, nearest first
chainBelowBody(d, target) ==
    SelectSeq(Ancestors(d, target), LAMBDA e : e \notin {"body", "html"})

\* the element carries a data-inspection-name and a data-inspection-id (with a value)
carriesBothMarkers(d, e) ==
    /\ d[e].name \notin {Absent, ""}
    /\ d[e].cid \notin {Absent, ""}

\* the nearest element of a chain that carries both markers, Null if none does
nearestMarked(d, chain) ==
    IF \E i \in 1..Len(chain) : carriesBothMarkers(d, chain[i])
    THEN chain[CHOOSE i \in 1..Len(chain) :
                   /\ carriesBothMarkers(d, chain[i])
                   /\ \A j \in 1..(i - 1) : ~carriesBothMarkers(d, chain[j])]
    ELSE Null

\* C9: for an active, unlocked session and a target in the document, when an element of
\* the chain from the target up to (not including) body carries both a
\* data-inspection-name and a data-inspection-id, inspectElement reports the nearest such
\* element, with the name and id of its markers, whatever the heuristic would accept
C9_ExplicitMetadataWins ==
    (/\ last.h = "inspectElement"
     /\ isInspectionActive
     /\ ~isLocked
     /\ bodyContains(dom, last.target)
     /\ nearestMarked(dom, chainBelowBody(dom, last.target)) # Null)
        => LET nearest == nearestMarked(dom, chainBelowBody(dom, last.target))
           IN  /\ last.call.called
               /\ last.call.element = nearest
               /\ last.call.component.componentName = dom[nearest].name
               /\ last.call.component.componentId = dom[nearest].cid
               /\ last.call.component = explicitMetadata(dom, nearest)
               /\ hoveredElement = nearest
               /\ hoveredComponent = last.call.component

\* the walker reported the marked e1 for the target e3 although e3 and e2, no markers on
\* them, are both meaningful
C9_Witness ==
    /\ last.h = "inspectElement"
    /\ last.target = "e3"
    /\ isInspectionActive
    /\ ~isLocked
    /\ isMeaningfulElement(dom, "e3")
    /\ isMeaningfulElement(dom, "e2")
    /\ ~carriesBothMarkers(dom, "e3")
    /\ ~carriesBothMarkers(dom, "e2")
    /\ last.call.called
    /\ last.call.element = "e1"
    /\ hoveredElement = "e1"

\* C10: inspectElement, when inspection is not active, when the session is locked or when
\* the target is not in document.body, calls setHoveredComponent not at all and the
\* reported pair stays as it was
C10_InspectElementEarlyReturns ==
    [][(/\ last'.h = "inspectElement"
        /\ \/ ~isInspectionActive
           \/ isLocked
           \/ last'.target = Null
           \/ ~bodyContains(dom, last'.target))
           => (last'.call = NoCall /\ hovered' = hovered)]_vars

\* inspectElement returned early in a locked session that reports e1, for a target in
\* the document other than e1
C10_Witness ==
    /\ last.h = "inspectElement"
    /\ isLocked
    /\ last.target = "e3"
    /\ bodyContains(dom, "e3")
    /\ ~last.call.called
    /\ hoveredElement = "e1"

\* the reported component is null exactly when the reported element is
pairTogether(st) == (st.hoveredComponent = NoComponent) <=> (st.hoveredElement = Null)

\* C11: hoveredComponent is null exactly when hoveredElement is, in every state and in
\* every render between: a write of the walker through setHoveredComponent never shows
\* the components one of the two fields changed without the other
C11_PairWrittenTogether ==
    [][/\ pairTogether(State)'
       /\ \A target \in Elements :
             handleMouseMove(target, FALSE) =>
                 LET rs == renders(State, Seen, hoveredUpdates(mouseMoveCall(target)))
                 IN  \A i \in 1..Len(rs) : pairTogether(rs[i][1])]_vars

\* C12: while the session is active (locked or not), the element it reports is attached
\* to the document: when the hovered element leaves the document the session reports
\* nothing, so no reader sees a detached hoveredElement
C12_RemovedElementCollapses ==
    (isInspectionActive /\ hoveredElement # Null) => bodyContains(dom, hoveredElement)

\* C13: after every handled key, touch or timer event the request-blocking flag equals
\* isInspectionActive: each activation calls setInspectionActive(true) and each
\* deactivation calls setInspectionActive(false)
C13_BlockFlagFollowsActive ==
    shouldBlockRequest = isInspectionActive

\* a short release of all touches has just deactivated a session that the long press
\* had activated
C13_Witness ==
    /\ last.h = "touchEnd"
    /\ last.n = 0
    /\ isInspectionActiveRef
    /\ ~isInspectionActive
    /\ ~shouldBlockRequest

\* C14: with the fetch interceptor installed, a fetch issued while requests are to be
\* blocked is rejected with a descriptive Error and the browser's fetch is not called
\* for it; a fetch issued while they are not is handed unchanged to the browser's fetch
C14_FetchBlockedWhileActive ==
    (last.h = "fetch" /\ windowFetch >= 1) =>
        IF shouldBlockRequest
        THEN /\ last.result.outcome = "rejected"
             /\ last.result.error = "Request blocked: Inspection mode active (CTRL held)"
             /\ last.result.args = Null
        ELSE /\ last.result.outcome = "forwarded"
             /\ last.result.args = last.args

\* a fetch was rejected by the installed interceptor while inspection is active
C14_Witness ==
    /\ last.h = "fetch"
    /\ windowFetch >= 1
    /\ shouldBlockRequest
    /\ last.result.outcome = "rejected"

\* C15: outside development mode no exported operation has a side effect: the session
\* state, the blocking flag, the instance counters, the registered listeners and
\* window.fetch stay as they were, and the operations return their neutral defaults
C15_NoOpOutsideDevelopment ==
    [][nodeEnv # "development" =>
          /\ UNCHANGED <<session, blockFlag, componentInstanceCounts, autoListeners,
                         windowFetch>>
          /\ ~shouldBlockRequest'
          /\ useInspection(State)'.hoveredComponent = NoComponent
          /\ \A e \in Elements : parseInspectionMetadata(dom, e)' = NoComponent]_vars

\* the instance marker s is written as an integer
isInteger(s) == s \in {"0", "2"}

\* C16: for an element with explicit markers whose data-inspection-instance is not a
\* valid integer, parseInspectionMetadata returns instanceIndex 0
C16_MalformedInstanceIsZero ==
    \A e \in Elements :
        (/\ hasExplicitMetadata(dom, e)
         /\ Truthy(dom[e].instance)
         /\ ~isInteger(dom[e].instance))
            => parseInspectionMetadata(dom, e).instanceIndex = 0

\* the value of an optional marker, or its default when the marker is absent
markerOr(marker, default) == IF marker = Absent THEN default ELSE marker

tagsOnly(d) == [e \in Elements |-> Plain(d[e].parent, d[e].children, d[e].tag)]

\* C18: for an element without a DOM id and without explicit markers the componentId
\* parseInspectionMetadata returns is the same on every call while the document is not
\* changed, and depends on the element's tag and its tag-indexed ancestor path only
C18_InferredIdStable ==
    \A e \in Elements :
        (~Truthy(dom[e].id) /\ ~hasExplicitMetadata(dom, e)) =>
            /\ parseInspectionMetadata(dom, e).componentId
                  = generateDeterministicId(tagsOnly(dom), e)
            /\ (last.h = "inspectElement" /\ last.call.called /\ last.call.element = e)
                  => last.call.component.componentId
                        = parseInspectionMetadata(dom, e).componentId

\* the walker reported an element with classes, without id and without explicit markers
C18_Witness ==
    /\ last.h = "inspectElement"
    /\ last.call.called
    /\ last.call.element = "e3"
    /\ dom["e3"].classes # <<>>
    /\ ~Truthy(dom["e3"].id)
    /\ ~hasExplicitMetadata(dom, "e3")
    /\ hoveredElement = "e3"

\* the (componentName, instanceIndex) pairs getNextInstanceIndex handed out since the
\* counters were reset last
allocatedPairs ==
    {p \in ComponentNames \X (0..MaxInstances) :
        p[2] < getCount(componentInstanceCounts, p[1])}

\* C19: no two instances allocated between two resets get the same componentId, also
\* for names that differ in letter case or in whitespace against hyphens only
C19_ComponentIdsDistinct ==
    \A p, q \in allocatedPairs :
        p # q => generateComponentId(p[1], p[2]) # generateComponentId(q[1], q[2])

\* the elements a mounted useInspectionMetadata instruments
instrumented == {e \in Elements : dom[e].hook # NoHook /\ bodyContains(dom, e)}

\* C20: for an element instrumented by useInspectionMetadata, the metadata its
\* onMouseEnter handler pushes and the metadata the walker resolves for the element, or
\* for a target inside it, carry the same componentId and componentName
C20_SameIdOnEveryPath ==
    nodeEnv = "development" =>
        \A e \in instrumented :
            \A target \in Elements :
                LET pushed == hookEnter(dom, e, TRUE)
                    walked == inspectElement(dom, target, TRUE, FALSE)
                IN  nearestMarked(dom, chainBelowBody(dom, target)) = e =>
                        /\ walked.called
                        /\ walked.element = e
                        /\ walked.component.componentId = pushed.component.componentId
                        /\ walked.component.componentName = pushed.component.componentName

\* a component named "Save Button" is mounted through the hook, in development
C20_Witness ==
    /\ nodeEnv = "development"
    /\ last.h = "useInspectionMetadata"
    /\ "e2" \in instrumented
    /\ dom["e2"].hook.componentName = "Save Button"
    /\ inspectElement(dom, "e3", TRUE, FALSE).element = "e2"

\* C21: getNextInstanceIndex(name) returns the number of calls made for that name since
\* the counters were reset last (0 on the first call, one more on each later call) and
\* counts each name on its own; after resetInstanceCounts() every name starts at 0 again
C21_InstanceIndexCounts ==
    [][/\ last'.h = "getNextInstanceIndex" =>
             /\ last'.result = getCount(componentInstanceCounts, last'.args)
             /\ getCount(componentInstanceCounts', last'.args) = last'.result + 1
             /\ \A name \in ComponentNames \ {last'.args} :
                   getCount(componentInstanceCounts', name)
                      = getCount(componentInstanceCounts, name)
             /\ (last.h = "resetInstanceCounts" \/ last.h = "mount") => last'.result = 0
             /\ (last.h = "getNextInstanceIndex" /\ last.args = last'.args)
                   => last'.result = last.result + 1
       /\ last'.h = "resetInstanceCounts" =>
             \A name \in ComponentNames : getCount(componentInstanceCounts', name) = 0]_vars

\* the second call for "card" returned 1 while no instance of "Card" is counted
C21_Witness ==
    /\ last.h = "getNextInstanceIndex"
    /\ last.args = "card"
    /\ last.result = 1
    /\ getCount(componentInstanceCounts, "Card") = 0

\* the pointer-enter and touch-start handlers of the hook and of the wrapper
EnterHandlers == {"hookMouseEnter", "hookTouchStart", "wrapperMouseEnter"}

\* the pointer-leave handlers of the hook and of the wrapper
LeaveHandlers == {"hookMouseLeave", "wrapperMouseLeave"}

\* C22: the handlers of useInspectionMetadata and of InspectionWrapper write the session
\* only while inspection is active: when active, pointer-enter and touch-start report the
\* component's computed metadata with the event's current target and pointer-leave
\* reports (null, null); when not active they leave the reported pair as it is
C22_HookHandlersWriteOnlyWhenActive ==
    [][/\ (last'.h \in EnterHandlers /\ last' # last) =>
             hovered' = IF isInspectionActive
                        THEN <<hookMetadata(dom, last'.target), last'.target>>
                        ELSE hovered
       /\ (last'.h \in LeaveHandlers /\ last' # last) =>
             hovered' = IF isInspectionActive THEN <<NoComponent, Null>> ELSE hovered]_vars

\* the hook's touch-start handler reported its component in an active session
C22_Witness ==
    /\ last.h = "hookTouchStart"
    /\ isInspectionActive
    /\ hoveredElement = last.target
    /\ hoveredComponent = hookMetadata(dom, last.target)

\* the allow-list of the props signature, in its order
AllowList == <<"variant", "role", "type", "mode", "status", "disabled", "selected", "active">>

RECURSIVE tokensFrom(_, _)
\* the key=value tokens of the allow-listed keys from the i-th on that props holds with
\* a string, a number or a boolean
tokensFrom(props, i) ==
    IF i > Len(AllowList) THEN <<>>
    ELSE LET key == AllowList[i]
         IN  (IF key \in DOMAIN props /\ props[key].kind \in {"string", "number", "boolean"}
              THEN <<key \o "=" \o props[key].text>> ELSE <<>>)
             \o tokensFrom(props, i + 1)

\* C23: formatPropsSignature(props) is the ", "-joined list of the key=value tokens of
\* exactly the allow-listed keys, in the order of the allow-list, that props holds with a
\* string, number or boolean value, and "default" when no key qualifies
C23_PropsSignature ==
    last.h = "formatPropsSignature" =>
        LET tokens == tokensFrom(last.args, 1)
        IN  last.result = IF tokens = <<>> THEN "default" ELSE joinWith(tokens, ", ")

\* props with an object, an undefined and a number value gave the number's token only
C23_Witness ==
    /\ last.h = "formatPropsSignature"
    /\ "role" \in DOMAIN last.args
    /\ last.args["variant"].kind = "object"
    /\ last.result = "mode=2"
\* C24: on a touch device a touch-start with exactly three touches starts the long-press
\* timer; the timer stays pending until a touchend, a touchcancel or its own callback;
\* the callback runs no sooner than 800 ms after the touch-start and makes the session
\* Active: isInspectionActive and the request-blocking flag are true
C24_LongPressActivates ==
    [][/\ (last'.h = "touchStart" /\ last' # last /\ last'.n = ActivationTouches) =>
             (longPressTimerRef' /\ touchStartTimeRef' = Now)
       /\ (longPressTimerRef /\ ~longPressTimerRef') =>
             last'.h \in {"touchEnd", "touchCancel", "longPressTimeout"}
       /\ (last'.h = "longPressTimeout" /\ last' # last) =>
             /\ longPressTimerRef
             /\ Now - touchStartTimeRef >= LongPressMs
             /\ isInspectionActive'
             /\ shouldBlockRequest']_vars

\* the long-press timeout has just activated a session that was inactive, the three
\* fingers still on the screen
C24_Witness ==
    /\ last.h = "longPressTimeout"
    /\ touches = ActivationTouches
    /\ isInspectionActive
    /\ shouldBlockRequest
    /\ ~isInspectionActiveRef

\* the event handled before was a touch-end
afterTouchEnd == last.h \in {"touchEnd", "autoTouchEnd"}

\* the refs hold the committed state
refsInSync == Seen = syncRefs(State)

\* the touch-end ends a short three-finger touch of an active session (the case of C26)
shortRelease(e) ==
    e.n = 0 /\ isInspectionActiveRef /\ Now - touchStartTimeRef < LongPressMs

\* C25: on a touch device two touch-ends on the same target less than 300 ms apart toggle
\* the lock (Active with a hovered component becomes ActiveLocked, ActiveLocked becomes
\* Active, an unlocked session with nothing hovered stays unlocked); two touch-ends on
\* different targets, or 300 ms or more apart, leave isLocked as it is.  Stated for
\* handleTouchEnd when the refs hold the committed state and the touch-end is not a
\* short release
C25_DoubleTapTogglesLock ==
    [][(/\ last'.h = "touchEnd"
        /\ last' # last
        /\ afterTouchEnd
        /\ refsInSync
        /\ ~shortRelease(last')) =>
            LET timeSinceLastTap == Now - lastTapRef
            IN  /\ (/\ last'.target = last.target
                    /\ timeSinceLastTap > 0
                    /\ timeSinceLastTap < DoubleTapMs) =>
                        isLocked' = IF isLocked THEN FALSE
                                    ELSE isInspectionActive /\ hoveredComponent # NoComponent
                /\ (last'.target # last.target \/ timeSinceLastTap >= DoubleTapMs) =>
                        isLocked' = isLocked]_vars

\* C26: on a touch device, while the session is active, lifting the last finger less
\* than 800 ms after the three-finger touch-start makes the session Inactive and clears
\* isLocked, the H-held flag, the reported pair and the request-blocking flag; lifting
\* it 800 ms or more after the touch-start (the long-press that activated inspection)
\* leaves the session active
C26_ShortReleaseDeactivates ==
    [][(/\ last'.h = "touchEnd"
        /\ last' # last
        /\ last'.n = 0
        /\ isInspectionActive) =>
            IF Now - touchStartTimeRef < LongPressMs
            THEN Inactive' /\ ~hKeyPressedRef' /\ ~shouldBlockRequest'
            ELSE isInspectionActive']_vars
\* C27: no core operation raises to its caller: useInspection and the hook that calls
\* it return a value for every session state, below an InspectionProvider or not
C27_NoOperationThrows ==
    last.h \in {"useInspection", "useInspectionMetadata"}
        => "throws" \notin DOMAIN last.result
\* C28: while isLocked is true (before and after the step), a mousemove changes neither
\* the tooltip's position state nor a stable position it has
C28_LockedTooltipStays ==
    [][\A target \in Targets, batched \in BOOLEAN, p \in Points :
           (isLocked /\ isLocked' /\ mouseMoveEvent(target, batched, p)) =>
               /\ tooltip'.position = tooltip.position
               /\ tooltip.stablePosition # NoPosition
                     => tooltip'.stablePosition = tooltip.stablePosition]_vars
\* the labels of lines, in order
labelsOf(lines) == [i \in 1..Len(lines) |-> lines[i][1]]

C30_InactiveReportsNothing ==
    ~isInspectionActive => (hoveredComponent = NoComponent /\ hoveredElement = Null)
\* C31: the element inspectElement reports is never the document's body or root: every
\* call it makes to setHoveredComponent with an element names a proper descendant of body
C31_NeverReportsBody ==
    (last.h = "inspectElement" /\ last.call.called /\ last.call.element # Null)
        => last.call.element \notin {"body", "html"}
\* meaningful, as the heuristic pass is described: at least 5px wide or 5px high, and with
\* a data-inspection-name (with a value), an id, a class, or a tag other than DIV and SPAN
meaningful(d, e) ==
    /\ d[e].width >= 5 \/ d[e].height >= 5
    /\ \/ d[e].name \notin {Absent, ""}
       \/ d[e].id # ""
       \/ d[e].classes # <<>>
       \/ d[e].tag \notin {"DIV", "SPAN"}

\* the nearest meaningful element of a chain, Null if none is
nearestMeaningful(d, chain) ==
    IF \E i \in 1..Len(chain) : meaningful(d, chain[i])
    THEN chain[CHOOSE i \in 1..Len(chain) :
                   /\ meaningful(d, chain[i])
                   /\ \A j \in 1..(i - 1) : ~meaningful(d, chain[j])]
    ELSE Null

C33_FallbackReportsTarget ==
    (/\ last.h = "inspectElement"
     /\ last.call.called
     /\ last.target \notin {"body", "html"}
     /\ nearestMarked(dom, chainBelowBody(dom, last.target)) = Null
     /\ nearestMeaningful(dom, chainBelowBody(dom, last.target)) = Null)
        => /\ last.call.element = last.target
           /\ last.call.component = inferredMetadata(dom, last.target)
           /\ last.call.component # NoComponent

\* neither the target, a small span with a class, nor its plain parents are accepted, and
\* inspectElement reported the target
C33_Witness ==
    /\ last.h = "inspectElement"
    /\ last.target = "e3"
    /\ dom["e3"].width < 5
    /\ dom["e3"].classes = <<"selected">>
    /\ dom["e2"] = WithAttrs(dom["e2"], PlainDiv)
    /\ dom["e1"] = WithAttrs(dom["e1"], PlainDiv)
    /\ last.call.element = "e3"
    /\ last.call.component.componentName = "SPAN .selected"
\* the capitalized word that follows the prefix Mui in a class token, Undefined if the
\* token is not of this form
capitalizedAfterMui(c) == IF c = "MuiButton-root" THEN "Button" ELSE Undefined

\* the inferred name as described: the first such word of the classes, else the tag in
\* upper case; then " (id)", else " .c" for the first class c that does not start with Mui
\* and is longer than 2 characters, else nothing
describedName(node) ==
    LET words == SelectSeq(node.classes, LAMBDA c : capitalizedAfterMui(c) # Undefined)
        base == IF words # <<>> THEN capitalizedAfterMui(words[1]) ELSE node.tag
        named == SelectSeq(node.classes,
                           LAMBDA c : c \notin {"Mui", "MuiButton-root", "Muix", "", "ab"})
    IN  IF node.id # "" THEN base \o " (" \o node.id \o ")"
        ELSE IF named # <<>> THEN base \o " ." \o named[1]
        ELSE base

\* C34: for every element without both explicit markers, parseInspectionMetadata returns
\* the described inferred name; a div with the classes "transaction-card selected" and no
\* id gets "DIV .transaction-card" and the props signature "classes=2"
C34_InferredName ==
    \A e \in Elements :
        ~carriesBothMarkers(dom, e) =>
            /\ parseInspectionMetadata(dom, e).componentName = describedName(dom[e])
            /\ (/\ dom[e].tag = "DIV"
                /\ dom[e].id = ""
                /\ dom[e].classes = <<"transaction-card", "selected">>)
                  => /\ parseInspectionMetadata(dom, e).componentName = "DIV .transaction-card"
                     /\ parseInspectionMetadata(dom, e).propsSignature = "classes=2"
C37_LockedImpliesHovered ==
    isLocked => (hoveredComponent # NoComponent /\ hoveredElement # Null)
\* C38: a touch-end of the long-press that activated inspection which leaves fingers on
\* the screen (the fingers of the three-finger touch being lifted one after another, the
\* touch-ends less than 300 ms apart) does not engage the lock
C38_FingerLiftNeverLocks ==
    [][(/\ last'.h = "touchEnd"
        /\ last'.n >= 1
        /\ touches = last'.n + 1
        /\ isInspectionActive
        /\ Now - touchStartTimeRef >= LongPressMs
        /\ ~isLocked) => ~isLocked']_vars
\* C39: in every reachable state the one registered set of auto-inspection listeners was
\* created by setupAutoInspection with the isInspectionActive and isLocked of the latest
\* committed state
C39_ListenersOfLatestCommit ==
    autoListeners = [isInspectionActive |-> isInspectionActive, isLocked |-> isLocked]

====
